---- MODULE Spec2Model ----
(***************************************************************************)
(* Model of the computed-role selector engine of                           *)
(* @jsxtools/playwright-getbycomputedrole: the encapsulation tracker       *)
(* installed by scriptForInit and the role / accessible-name / traversal   *)
(* engine built by scriptForSelector.                                      *)
(*                                                                         *)
(* Strings whose content the code inspects (trim, whitespace collapse,     *)
(* split, join) are sequences of one-character strings.  Strings the code  *)
(* only compares as a whole (tag names, roles, input types) are TLA+       *)
(* strings.                                                                *)
(***************************************************************************)
EXTENDS Integers, Sequences, FiniteSets, TLC

VARIABLES
    dom,                \* the document: node id -> node record (structure and attributes)
    attached,           \* elements whose attachShadow has returned a shadow root
    internals,          \* element -> its ElementInternals object (live), or NoInternals
    hooked,             \* TRUE once scriptForInit has run in this document
    internalsMap,       \* tracker: element -> the element whose ElementInternals is recorded
    shadowdomMap,       \* tracker: element -> the ShadowRoot node recorded
    engine,             \* "none", or whose maps the created engine reads: "tracker" | "own"
    computedStyleCache, \* engine: elements whose computed style object is cached
    callsLeft,          \* engine calls this behaviour may still make
    call,               \* the engine call just made (operation, arguments, result);
                        \* NoCall once the page has changed since
    prototypes,         \* test process: the prototype objects, id -> [proto, own methods]
    page,               \* test process: the prototype of the page object
    patchedLocatorPrototype, \* the prototype the last registerLocator created for locators
    additionalMethods,  \* names of the additional methods registered so far
    registered,         \* registerLocator calls made on the page
    chain               \* the chain of method calls being evaluated, starting at the page

browserVars == <<dom, attached, internals, hooked, internalsMap, shadowdomMap, engine,
                 computedStyleCache, callsLeft, call>>

testVars == <<prototypes, page, patchedLocatorPrototype, additionalMethods, registered,
              chain>>

vars == <<browserVars, testVars>>

----------------------------------------------------------------------------
(* JavaScript values *)

\* null / undefined for whole-compared strings (roles, filter fields)
Null == "<null>"
\* null / undefined for character-sequence strings
NullStr == <<"<null>">>
\* no node (null parentNode, null parentElement, generator exhausted)
NoNode == 0

\* JavaScript truthiness of a whole-compared string or null
Truthy(s) == s # Null /\ s # ""
\* JavaScript truthiness of a character-sequence string or null
TruthyStr(s) == s # NullStr /\ s # <<>>

\* characters matched by \s and removed by String.prototype.trim
IsWs(c) == c \in {" ", "\t", "\n"}

RECURSIVE TrimStart(_)
TrimStart(s) ==
    IF s = <<>> THEN <<>>
    ELSE IF IsWs(Head(s)) THEN TrimStart(Tail(s)) ELSE s

RECURSIVE TrimEnd(_)
TrimEnd(s) ==
    IF s = <<>> THEN <<>>
    ELSE IF IsWs(s[Len(s)]) THEN TrimEnd(SubSeq(s, 1, Len(s) - 1)) ELSE s

\* String.prototype.trim
Trim(s) == TrimEnd(TrimStart(s))

\* s.replace(/\s+/g, " ")
RECURSIVE CollapseWs(_)
CollapseWs(s) ==
    IF s = <<>> THEN <<>>
    ELSE IF IsWs(Head(s)) THEN <<" ">> \o CollapseWs(TrimStart(s))
    ELSE <<Head(s)>> \o CollapseWs(Tail(s))

\* strings.join(" ")
RECURSIVE JoinSpace(_)
JoinSpace(strings) ==
    IF strings = <<>> THEN <<>>
    ELSE IF Len(strings) = 1 THEN strings[1]
    ELSE strings[1] \o <<" ">> \o JoinSpace(Tail(strings))

NonEmptyStr(s) == s # <<>>

\* faulty variant: each string is trimmed, its inner whitespace runs are kept
normalizeTrimOnly(strings) ==
    JoinSpace(SelectSeq([i \in 1..Len(strings) |-> Trim(strings[i])], NonEmptyStr))

\* normalize(...strings): trim and collapse each, drop the empty ones, join with " "
normalize(strings) ==
    JoinSpace(SelectSeq([i \in 1..Len(strings) |-> CollapseWs(Trim(strings[i]))],
                        NonEmptyStr))

\* ids.trim().split(/\s+/).filter(Boolean)
RECURSIVE SplitWs(_, _)
SplitWs(s, cur) ==
    IF s = <<>> THEN (IF cur = <<>> THEN <<>> ELSE <<cur>>)
    ELSE IF IsWs(Head(s))
         THEN (IF cur = <<>> THEN <<>> ELSE <<cur>>) \o SplitWs(Tail(s), <<>>)
         ELSE SplitWs(Tail(s), Append(cur, Head(s)))

\* String.prototype.toLowerCase on the model's alphabet
LowerChar(c) == IF c = "A" THEN "a" ELSE IF c = "B" THEN "b" ELSE c
toLowerCase(s) == [i \in 1..Len(s) |-> LowerChar(s[i])]

\* String.prototype.includes
includes(s, sub) ==
    \E i \in 0..(Len(s) - Len(sub)) : SubSeq(s, i + 1, i + Len(sub)) = sub

----------------------------------------------------------------------------
(* The document tree *)

ELEMENT_NODE == 1
TEXT_NODE == 3
DOCUMENT_NODE == 9
DOCUMENT_FRAGMENT_NODE == 11

Nodes == DOMAIN dom
Elements == {n \in Nodes : dom[n].nodeType = ELEMENT_NODE}

\* node.childNodes, in tree order (sibling order is id order)
RECURSIVE SortedSeq(_)
SortedSeq(S) ==
    IF S = {} THEN <<>>
    ELSE LET m == CHOOSE x \in S : \A y \in S : x <= y
         IN <<m>> \o SortedSeq(S \ {m})

childNodes(n) == SortedSeq({c \in Nodes : dom[c].parentNode = n})

\* node.parentElement: the parent when it is an element, else null
parentElement(n) ==
    LET p == dom[n].parentNode
    IN IF p # NoNode /\ dom[p].nodeType = ELEMENT_NODE THEN p ELSE NoNode

\* node.getRootNode(): the document or shadow root (or detached top) above n
RECURSIVE getRootNode(_)
getRootNode(n) ==
    IF dom[n].parentNode = NoNode THEN n ELSE getRootNode(dom[n].parentNode)

\* the shadow root the browser attached to element e, or NoNode
shadowRootOf(e) ==
    IF e \in attached
    THEN CHOOSE f \in Nodes : dom[f].nodeType = DOCUMENT_FRAGMENT_NODE /\ dom[f].host = e
    ELSE NoNode

\* shadow-including tree order: preorder position of every node of the document tree
RECURSIVE Preorder(_)
RECURSIVE PreorderAll(_)
Preorder(n) == <<n>> \o PreorderAll(childNodes(n))
PreorderAll(ns) ==
    IF ns = <<>> THEN <<>> ELSE Preorder(Head(ns)) \o PreorderAll(Tail(ns))

TheDocument == CHOOSE n \in Nodes : dom[n].nodeType = DOCUMENT_NODE

\* elements of the tree rooted at r, in tree order
TreeElements(r) == SelectSeq(Preorder(r), LAMBDA n : dom[n].nodeType = ELEMENT_NODE)

\* the first node of a list, or null
First(ns) == IF ns = <<>> THEN NoNode ELSE ns[1]

\* a list, or another one when it is empty
OrElse(ns, others) == IF ns # <<>> THEN ns ELSE others

\* doc.getElementById(id): first element of the document tree with that id, or null
getElementById(id) ==
    IF id = <<>> THEN NoNode
    ELSE First(SelectSeq(TreeElements(TheDocument), LAMBDA n : dom[n].id = id))

\* doc.querySelectorAll(`label[for="${CSS.escape(id)}"]`)
labelsFor(id) ==
    SelectSeq(TreeElements(TheDocument),
              LAMBDA n : dom[n].tagName = "LABEL" /\ dom[n].htmlFor = id)

\* labelable elements: the ones that have a .labels property
IsLabelable(e) ==
    \/ dom[e].tagName \in {"BUTTON", "METER", "SELECT", "TEXTAREA"}
    \/ dom[e].tagName = "INPUT" /\ dom[e].type # "hidden"

\* the labeled control of a label element (HTML: for target, else first labelable descendant)
LabelableOrNull(n) == IF n # NoNode /\ IsLabelable(n) THEN n ELSE NoNode
labeledControl(l) ==
    IF dom[l].htmlFor # NullStr
    THEN LabelableOrNull(First(SelectSeq(TreeElements(getRootNode(l)),
                                         LAMBDA n : /\ dom[n].id = dom[l].htmlFor
                                                    /\ dom[l].htmlFor # <<>>)))
    ELSE First(SelectSeq(Tail(Preorder(l)),
                         LAMBDA n : dom[n].nodeType = ELEMENT_NODE /\ IsLabelable(n)))

\* el.labels: the label elements of el's tree whose labeled control is el, in tree order
labels(e) ==
    SelectSeq(TreeElements(getRootNode(e)),
              LAMBDA n : dom[n].tagName = "LABEL" /\ labeledControl(n) = e)

\* n lives in a shadow tree the browser has attached
IsAttachedShadowRoot(r) ==
    dom[r].nodeType = DOCUMENT_FRAGMENT_NODE /\ dom[r].host \in attached
InShadowTree(n) == IsAttachedShadowRoot(getRootNode(n))

IsSlot(n) == dom[n].nodeType = ELEMENT_NODE /\ dom[n].tagName = "SLOT"

\* slot.assignedNodes(): children of the host named for this slot (first slot of a name wins)
AssignedIn(s, r) ==
    IF First(SelectSeq(TreeElements(r), LAMBDA n : IsSlot(n) /\ dom[n].slot = dom[s].slot)) # s
    THEN <<>>
    ELSE SelectSeq(childNodes(dom[r].host),
                   LAMBDA c : dom[c].nodeType \in {ELEMENT_NODE, TEXT_NODE}
                              /\ dom[c].slot = dom[s].slot)
assignedNodes(s) ==
    IF ~InShadowTree(s) THEN <<>> ELSE AssignedIn(s, getRootNode(s))

\* slot.assignedNodes({ flatten: true }): fallback children when nothing is assigned,
\* and a slot among the nodes replaced by its own flattened nodes
RECURSIVE assignedNodesFlat(_)
RECURSIVE FlattenAll(_)
assignedNodesFlat(s) ==
    IF ~InShadowTree(s) THEN <<>>
    ELSE FlattenAll(OrElse(assignedNodes(s),
                           SelectSeq(childNodes(s),
                                     LAMBDA c : dom[c].nodeType \in {ELEMENT_NODE, TEXT_NODE})))
FlattenAll(ns) ==
    IF ns = <<>> THEN <<>>
    ELSE (IF IsSlot(Head(ns)) /\ InShadowTree(Head(ns))
          THEN assignedNodesFlat(Head(ns)) ELSE <<Head(ns)>>) \o FlattenAll(Tail(ns))

\* slot.assignedElements({ flatten: true })
assignedElementsFlat(s) ==
    SelectSeq(assignedNodesFlat(s), LAMBDA n : dom[n].nodeType = ELEMENT_NODE)

----------------------------------------------------------------------------
(* The tracker maps as the engine reads them (part_000 line 8) *)

NoInternals == [has |-> FALSE, role |-> Null, ariaLabel |-> NullStr,
                ariaLabelledByElements |-> <<NoNode>>]

\* faulty variant: the map holds the object as it was when attachInternals returned,
\* before the page assigned anything to it
internalsMapGetAsRecorded(e) ==
    IF engine = "tracker" /\ e \in DOMAIN internalsMap
    THEN [NoInternals EXCEPT !.has = TRUE]
    ELSE NoInternals

\* internalsMap.get(el): the live ElementInternals recorded for el, or undefined
internalsMapGet(e) ==
    IF engine = "tracker" /\ e \in DOMAIN internalsMap THEN internals[internalsMap[e]]
    ELSE NoInternals

\* shadowdomMap.get(el): the ShadowRoot recorded for el, or undefined
shadowdomMapGet(e) ==
    IF engine = "tracker" /\ e \in DOMAIN shadowdomMap THEN shadowdomMap[e] ELSE NoNode

----------------------------------------------------------------------------
(* Visibility *)

\* getComputedStyle(node): the live declaration of node, which reads as the
\* node's current style whenever it is read
getComputedStyle(n) == [display |-> dom[n].display, visibility |-> dom[n].visibility]

\* faulty variant: a cached declaration reads as the initial values
CachedStyleInitial(n) == [display |-> "block", visibility |-> "visible"]

\* computedStyleCache.get(node) of a cached node: the declaration stored for it
CachedStyle(n) == getComputedStyle(n)

\* the declaration isElementHidden reads: the cached one, or a new one
ComputedStyle(n) ==
    IF n \in computedStyleCache THEN CachedStyle(n) ELSE getComputedStyle(n)

\* one iteration of the loop of isElementHidden on an element node:
\* which test, if any, returns true, and whether the computed style was read
HiddenAt(n) ==
    IF dom[n].hidden THEN [hidden |-> TRUE, styled |-> FALSE]
    ELSE IF dom[n].ariaHidden = "true" THEN [hidden |-> TRUE, styled |-> FALSE]
    ELSE IF ComputedStyle(n).display = "none" \/ ComputedStyle(n).visibility = "hidden"
         THEN [hidden |-> TRUE, styled |-> TRUE]
    ELSE IF dom[n].inert THEN [hidden |-> TRUE, styled |-> TRUE]
    ELSE [hidden |-> FALSE, styled |-> TRUE]

\* isElementHidden(target) with the set of elements whose computed style it looked up
RECURSIVE HiddenWalk(_)
HiddenWalk(n) ==
    IF n = NoNode THEN [hidden |-> FALSE, styled |-> {}]
    ELSE IF dom[n].nodeType # ELEMENT_NODE THEN HiddenWalk(parentElement(n))
    ELSE LET here == HiddenAt(n)
             mine == IF here.styled THEN {n} ELSE {}
         IN IF here.hidden THEN [hidden |-> TRUE, styled |-> mine]
            ELSE LET up == HiddenWalk(parentElement(n))
                 IN [hidden |-> up.hidden, styled |-> mine \cup up.styled]

isElementHidden(target) == HiddenWalk(target).hidden

\* the elements isElementHidden(target) adds to computedStyleCache
StyledBy(target) == HiddenWalk(target).styled

----------------------------------------------------------------------------
(* Text extraction *)

\* the nodes asText recurses into for a visible element that is no IMG and no INPUT
ChildSources(n, shadowRoot) ==
    IF shadowRoot # NoNode THEN childNodes(shadowRoot) ELSE childNodes(n)
TextSources(n) ==
    IF IsSlot(n) THEN OrElse(assignedNodesFlat(n), ChildSources(n, shadowdomMapGet(n)))
    ELSE ChildSources(n, shadowdomMapGet(n))

\* asText(node): the text, and the elements whose computed style it looked up
RECURSIVE AsText(_)
RECURSIVE AsTextAll(_)
NoTexts == [texts |-> <<>>, styled |-> {}]
\* normalize(...Array.from(nodes, asText)) for the element whose hidden test read styled
JoinedText(parts, styled) ==
    [text |-> normalize(parts.texts), styled |-> styled \cup parts.styled]
\* asText of an element, walk being the outcome of isElementHidden for it
AsTextOfElement(n, walk) ==
    IF walk.hidden THEN [text |-> <<>>, styled |-> walk.styled]
    ELSE IF dom[n].tagName = "IMG" THEN [text |-> dom[n].alt, styled |-> walk.styled]
    ELSE IF dom[n].tagName = "INPUT"
         THEN [text |-> IF dom[n].type \in {"button", "submit", "reset"} THEN dom[n].value
                        ELSE IF dom[n].type = "image" THEN dom[n].alt
                        ELSE <<>>,
               styled |-> walk.styled]
    ELSE JoinedText(AsTextAll(TextSources(n)), walk.styled)
AsText(n) ==
    IF dom[n].nodeType = TEXT_NODE THEN [text |-> dom[n].nodeValue, styled |-> {}]
    ELSE IF dom[n].nodeType # ELEMENT_NODE THEN [text |-> <<>>, styled |-> {}]
    ELSE AsTextOfElement(n, HiddenWalk(n))
\* Array.from(nodes, asText)
TextsCons(h, t) == [texts |-> <<h.text>> \o t.texts, styled |-> h.styled \cup t.styled]
AsTextAll(ns) ==
    IF ns = <<>> THEN NoTexts ELSE TextsCons(AsText(Head(ns)), AsTextAll(Tail(ns)))

asText(n) == AsText(n).text

\* associatedLabelText(el): label[for=id] first, then el.labels; null when both are empty
LabelTextFrom(byId, idText, byLabels, labText) ==
    IF idText # <<>> THEN [text |-> idText, styled |-> byId.styled]
    ELSE IF labText # <<>>
    THEN [text |-> labText, styled |-> byId.styled \cup byLabels.styled]
    ELSE [text |-> NullStr, styled |-> byId.styled \cup byLabels.styled]
LabelTexts(byId, byLabels) ==
    LabelTextFrom(byId, normalize(byId.texts), byLabels, normalize(byLabels.texts))
AssociatedLabelText(e) ==
    LabelTexts(IF dom[e].id # <<>> THEN AsTextAll(labelsFor(dom[e].id)) ELSE NoTexts,
               IF IsLabelable(e) THEN AsTextAll(labels(e)) ELSE NoTexts)

associatedLabelText(e) == AssociatedLabelText(e).text

\* resolveIdRefs(doc, ids)
resolveIdRefs(ids) ==
    LET toks == SplitWs(ids, <<>>)
        found == [i \in 1..Len(toks) |-> getElementById(toks[i])]
    IN SelectSeq(found, LAMBDA n : n # NoNode)

\* getLabelledByElementsByAttribute(el)
getLabelledByElementsByAttribute(e) ==
    IF TruthyStr(dom[e].ariaLabelledby) THEN resolveIdRefs(dom[e].ariaLabelledby) ELSE <<>>

----------------------------------------------------------------------------
(* Role and accessible name *)

rolesAllowingNameFromContent ==
    {"button", "link", "menuitem", "menuitemcheckbox", "menuitemradio", "option", "tab",
     "switch", "checkbox", "radio", "treeitem", "heading", "term", "definition",
     "toolbar", "group", "region"}

\* faulty variant: the checkbox / radio case is missing
computeInputElementRoleNoToggle(e) ==
    IF dom[e].type \in {"button", "submit", "reset", "image"} THEN "button" ELSE "textbox"

\* computeInputElementRole(el)
computeInputElementRole(e) ==
    IF dom[e].type \in {"button", "submit", "reset", "image"} THEN "button"
    ELSE IF dom[e].type \in {"checkbox", "radio"} THEN dom[e].type
    ELSE "textbox"

\* the fixed tag cases of the switch of computeElementRole, SECTION apart
TagTable ==
    [ARTICLE |-> "article", ASIDE |-> "complementary", BUTTON |-> "button",
     FOOTER |-> "contentinfo", FORM |-> "form", H1 |-> "heading", H2 |-> "heading",
     H3 |-> "heading", H4 |-> "heading", H5 |-> "heading", H6 |-> "heading",
     HEADER |-> "banner", IMG |-> "img", LABEL |-> "label", LI |-> "listitem",
     MAIN |-> "main", METER |-> "progressbar", NAV |-> "navigation", TABLE |-> "table",
     TEXTAREA |-> "textbox", OL |-> "list", UL |-> "list"]

\* recursion budget of the role / name computations: more nested calls than any
\* computation that stops can make on this document
CallBudget == 2 * Cardinality(Elements) + 4

\* the result of a name computation that did not return within the budget
Diverged(o) ==
    [name |-> <<>>, cache |-> o.cache, visited |-> o.visited, styled |-> {}, ok |-> FALSE]

\* cacheAndReturn(cache, el, text)
cacheAndReturn(cache, e, text) == (e :> text) @@ cache

\* faulty variant: no guard against re-entering an element
visitedHasNever(visited, e) == e \in visited /\ FALSE

\* faulty variant: any computation in progress counts as a re-entry
visitedHasAny(visited, e) == visited # {} \/ e \in visited

\* the guard of computeAccessibleName against re-entering an element (lines 303-305)
visitedHas(visited, e) == e \in visited

\* internals?.ariaLabelledByElements ?? getLabelledByElementsByAttribute(el)
ElementsOr(int, byAttribute) ==
    IF int.has /\ int.ariaLabelledByElements # <<NoNode>>
    THEN int.ariaLabelledByElements
    ELSE byAttribute
labelledByElements(e) ==
    ElementsOr(internalsMapGet(e), getLabelledByElementsByAttribute(e))

RECURSIVE ComputeName(_, _, _)
RECURSIVE ComputeNameRefs(_, _, _)
RECURSIVE ComputeRole(_, _)

\* faulty variant: the tag table is consulted before the explicit role attribute
ComputeRoleTagFirst(e, fuel) ==
    [role |-> IF dom[e].tagName \in DOMAIN TagTable THEN TagTable[dom[e].tagName]
              ELSE IF Truthy(dom[e].role) THEN dom[e].role
              ELSE IF Truthy(internalsMapGet(e).role) THEN internalsMapGet(e).role
              ELSE Null,
     styled |-> {}, ok |-> fuel >= 0]

\* a role found without computing a name
PlainRole(r) == [role |-> r, styled |-> {}, ok |-> TRUE]

\* the role of a section whose name computation gave n (lines 163-166)
SectionRole(n) ==
    [role |-> IF n.name # <<>> THEN "region" ELSE "generic", styled |-> n.styled, ok |-> n.ok]

\* computeElementRole(el): the role (Null for null), with the looked-up styles and
\* whether the nested name computation returned
ComputeRole(e, fuel) ==
    IF Truthy(dom[e].role) THEN PlainRole(dom[e].role)
    ELSE IF dom[e].tagName \in DOMAIN TagTable THEN PlainRole(TagTable[dom[e].tagName])
    ELSE IF dom[e].tagName = "INPUT" THEN PlainRole(computeInputElementRole(e))
    ELSE IF dom[e].tagName = "SECTION"
         THEN SectionRole(ComputeName(e, [knownRole |-> "region", cache |-> <<>>,
                                          visited |-> {}, allowNameFromContent |-> FALSE],
                                      fuel))
    ELSE IF dom[e].tagName = "SELECT"
         THEN PlainRole(IF dom[e].multiple THEN "listbox" ELSE "combobox")
    ELSE IF dom[e].tagName = "A" THEN PlainRole(IF dom[e].href THEN "link" ELSE Null)
    ELSE IF Truthy(internalsMapGet(e).role) THEN PlainRole(internalsMapGet(e).role)
    ELSE PlainRole(Null)

\* return cacheAndReturn(cache, el, text), with the styles looked up on the way
Returned(e, o, text, styled, ok) ==
    [name |-> text, cache |-> cacheAndReturn(o.cache, e, text), visited |-> o.visited,
     styled |-> styled, ok |-> ok]

\* el.getAttribute("aria-label") ?? internals?.ariaLabel ?? "" (line 328)
AriaLabelOf(e, int) ==
    IF dom[e].ariaLabel # NullStr THEN dom[e].ariaLabel
    ELSE IF int.has /\ int.ariaLabel # NullStr THEN int.ariaLabel
    ELSE <<>>

\* opts.knownRole ?? computeElementRole(el) (line 363)
KnownOrComputedRole(e, o, fuel) ==
    IF o.knownRole # Null THEN PlainRole(o.knownRole) ELSE ComputeRole(e, fuel)

\* steps 4 and 5 (lines 362-374), r being the role and t the outcome of asText(el)
NameFromContent(e, o, styled, r, t) ==
    IF /\ o.allowNameFromContent
       /\ Truthy(r.role) /\ r.role \in rolesAllowingNameFromContent
       /\ t.text # <<>>
    THEN Returned(e, o, t.text, styled \cup r.styled \cup t.styled, r.ok)
    ELSE Returned(e, o, t.text, styled \cup r.styled \cup t.styled, r.ok)

\* steps 2 to 5, ariaLabel being the label of line 328 and assoc the outcome of
\* associatedLabelText(el)
NameSteps(e, o, fuel, ariaLabel, assoc) ==
    IF Trim(ariaLabel) # <<>> THEN Returned(e, o, normalize(<<ariaLabel>>), {}, TRUE)
    ELSE IF TruthyStr(assoc.text) THEN Returned(e, o, assoc.text, assoc.styled, TRUE)
    ELSE IF dom[e].tagName = "IMG" /\ dom[e].alt # <<>>
         THEN Returned(e, o, normalize(<<dom[e].alt>>), assoc.styled, TRUE)
    ELSE IF dom[e].tagName = "INPUT" /\ dom[e].type = "image" /\ dom[e].alt # <<>>
         THEN Returned(e, o, normalize(<<dom[e].alt>>), assoc.styled, TRUE)
    ELSE IF /\ dom[e].tagName = "INPUT"
            /\ dom[e].type \in {"button", "submit", "reset"}
            /\ dom[e].type # "image"
            /\ dom[e].value # <<>>
         THEN Returned(e, o, normalize(<<dom[e].value>>), assoc.styled, TRUE)
    ELSE IF dom[e].title # <<>>
         THEN Returned(e, o, normalize(<<dom[e].title>>), assoc.styled, TRUE)
    ELSE NameFromContent(e, o, assoc.styled, KnownOrComputedRole(e, o, fuel), AsText(e))

\* the steps of computeAccessibleName after the cross-reference step (lines 327-374)
NameAfterRefs(e, o, fuel) ==
    NameSteps(e, o, fuel, AriaLabelOf(e, internalsMapGet(e)), AssociatedLabelText(e))

\* a result with the styles looked up before it added
WithStyled(styled, r) == [r EXCEPT !.styled = styled \cup r.styled]

\* step 1 after the referenced names are computed (lines 315-325): refs is the outcome
\* of the nested calls, text their normalized join, o2 the opts they leave
NameFromRefs(e, o2, refs, labelled, text, fuel) ==
    IF ~refs.ok THEN Diverged(o2)
    ELSE IF labelled /\ text # <<>>
    THEN Returned(e, o2, text, refs.styled, TRUE)
    ELSE WithStyled(refs.styled, NameAfterRefs(e, o2, fuel - 1))

NameOfRefs(e, o1, refs, labelled, fuel) ==
    NameFromRefs(e, [o1 EXCEPT !.cache = refs.cache, !.visited = refs.visited], refs,
                 labelled, normalize(refs.texts), fuel)

\* computeAccessibleName from line 306 on: o1 has el in its visited set
NameOfEntered(e, o1, labelledBy, fuel) ==
    NameOfRefs(e, o1,
               ComputeNameRefs(labelledBy, [o1 EXCEPT !.allowNameFromContent = TRUE], fuel - 1),
               labelledBy # <<>>, fuel)

\* computeAccessibleName(el, opts): the name, the cache and visited set it leaves in
\* opts, the looked-up styles, and whether it returned within the budget
ComputeName(e, o, fuel) ==
    IF fuel = 0 THEN Diverged(o)
    ELSE IF e \in DOMAIN o.cache
    THEN [name |-> o.cache[e], cache |-> o.cache, visited |-> o.visited,
          styled |-> {}, ok |-> TRUE]
    ELSE IF visitedHas(o.visited, e)
    THEN [name |-> <<>>, cache |-> o.cache, visited |-> o.visited, styled |-> {}, ok |-> TRUE]
    ELSE NameOfEntered(e, [o EXCEPT !.visited = o.visited \cup {e}], labelledByElements(e),
                       fuel)

\* the names of the first reference (h) and of the references after it (t)
RefsCons(h, t) ==
    [texts |-> <<h.name>> \o t.texts, cache |-> t.cache, visited |-> t.visited,
     styled |-> h.styled \cup t.styled, ok |-> h.ok /\ t.ok]

RefsAfter(refs, o, h, fuel) ==
    RefsCons(h, ComputeNameRefs(Tail(refs),
                                [o EXCEPT !.cache = h.cache, !.visited = h.visited], fuel))

\* Array.from(labelledByElements, ref => computeAccessibleName(ref, {...opts, ...})):
\* the calls share one cache and one visited set
ComputeNameRefs(refs, o, fuel) ==
    IF refs = <<>>
    THEN [texts |-> <<>>, cache |-> o.cache, visited |-> o.visited, styled |-> {}, ok |-> TRUE]
    ELSE RefsAfter(refs, o, ComputeName(Head(refs), o, fuel), fuel)

\* computeElementRole(el)
computeElementRole(e) == ComputeRole(e, CallBudget).role

\* opts of a call that passes no cache and no visited set
FreshOpts(knownRole, allowNameFromContent) ==
    [knownRole |-> knownRole, cache |-> <<>>, visited |-> {},
     allowNameFromContent |-> allowNameFromContent]

\* computeAccessibleName(el, { knownRole, allowNameFromContent })
computeAccessibleName(e, knownRole, allowNameFromContent) ==
    ComputeName(e, FreshOpts(knownRole, allowNameFromContent), CallBudget).name

----------------------------------------------------------------------------
(* Traversal and the selector engine *)

\* isSelectorRoot(node)
isSelectorRoot(n) ==
    dom[n].nodeType \in {ELEMENT_NODE, DOCUMENT_NODE, DOCUMENT_FRAGMENT_NODE}

\* faulty variant: the traversal ignores assigned elements and recorded shadow roots
NextOfElementChildrenOnly(n) == childNodes(n)

\* faulty variant: the recorded shadow root is ignored
RootOrChildrenLight(n, shadowRoot) == childNodes(n)

\* the recorded shadow root of a yielded element, or else its children
RootOrChildren(n, shadowRoot) ==
    IF shadowRoot # NoNode THEN <<shadowRoot>> ELSE childNodes(n)

\* what getElements(node) goes on to after yielding a visible element
NextOfElement(n) ==
    IF IsSlot(n) THEN OrElse(assignedElementsFlat(n), RootOrChildren(n, shadowdomMapGet(n)))
    ELSE RootOrChildren(n, shadowdomMapGet(n))

\* the generator getElements(root, document): work is the nodes the suspended calls
\* have still to be started on, in order; visited is the WeakSet they share
GenStart(root) == [work |-> <<root>>, visited |-> {}, styled |-> {}]

\* isElementHidden is not called for a node that is no element
NotWalked == [hidden |-> FALSE, styled |-> {}]

RECURSIVE GenNext(_)

\* faulty variant: the light children of a yielded element are walked as well, by
\* calls that do not share the visited set
GenVisitEveryPath(seen, n, rest, isElement, isHidden) ==
    IF isElement /\ ~isHidden
    THEN [node |-> n,
          g |-> [seen EXCEPT !.work = NextOfElement(n) \o childNodes(n) \o rest,
                             !.visited = {}]]
    ELSE IF isSelectorRoot(n) /\ (~isElement \/ ~isHidden)
    THEN GenNext([seen EXCEPT !.work = childNodes(n) \o rest])
    ELSE GenNext([seen EXCEPT !.work = rest])

\* getElements(node) from line 420 on: seen is the generator with node in its visited set
GenVisit(seen, n, rest, isElement, isHidden) ==
    IF isElement /\ ~isHidden
    THEN [node |-> n, g |-> [seen EXCEPT !.work = NextOfElement(n) \o rest]]
    ELSE IF isSelectorRoot(n) /\ (~isElement \/ ~isHidden)
    THEN GenNext([seen EXCEPT !.work = childNodes(n) \o rest])
    ELSE GenNext([seen EXCEPT !.work = rest])

\* getElements(node) from line 413 on, walk being the outcome of isElementHidden(node)
GenEnter(g, n, rest, isElement, walk) ==
    GenVisit([g EXCEPT !.visited = g.visited \cup {n}, !.styled = g.styled \cup walk.styled],
             n, rest, isElement, walk.hidden)

\* resume the generator: the next yielded element (NoNode when it is exhausted)
GenNext(g) ==
    IF g.work = <<>> THEN [node |-> NoNode, g |-> g]
    ELSE IF Head(g.work) \in g.visited THEN GenNext([g EXCEPT !.work = Tail(g.work)])
    ELSE GenEnter(g, Head(g.work), Tail(g.work),
                  dom[Head(g.work)].nodeType = ELEMENT_NODE,
                  IF dom[Head(g.work)].nodeType = ELEMENT_NODE THEN HiddenWalk(Head(g.work))
                  ELSE NotWalked)

\* parse(selector): JSON.parse and the destructuring of role, name and exact
parse(selector) ==
    [role |-> IF "role" \in DOMAIN selector THEN selector["role"] ELSE Null,
     name |-> IF "name" \in DOMAIN selector THEN selector["name"] ELSE NullStr,
     exact |-> IF "exact" \in DOMAIN selector THEN selector["exact"] ELSE Null]

\* faulty variant: exact is ignored
NameMatchesSubstringOnly(accessibleName, nameFilter, exact) ==
    includes(toLowerCase(accessibleName), toLowerCase(nameFilter))

\* the comparison of matchesNameFilter (lines 385-391)
NameMatches(accessibleName, nameFilter, exact) ==
    IF accessibleName # <<>>
    THEN IF exact = "true" THEN accessibleName = nameFilter
         ELSE includes(toLowerCase(accessibleName), toLowerCase(nameFilter))
    ELSE FALSE

MatchOfName(r, n, nameFilter, exact) ==
    [match |-> NameMatches(n.name, nameFilter, exact),
     styled |-> r.styled \cup n.styled, ok |-> r.ok /\ n.ok]

MatchWithRole(e, r, nameFilter, exact) ==
    MatchOfName(r, ComputeName(e, FreshOpts(r.role, TRUE), CallBudget), nameFilter, exact)

\* matchesNameFilter(element, nameFilter, exact)
MatchesNameFilter(e, nameFilter, exact) ==
    IF TruthyStr(nameFilter)
    THEN MatchWithRole(e, ComputeRole(e, CallBudget), nameFilter, exact)
    ELSE [match |-> FALSE, styled |-> {}, ok |-> TRUE]

matchesNameFilter(e, nameFilter, exact) == MatchesNameFilter(e, nameFilter, exact).match

\* the name test of the loop body, r being the element's role and m the match
KeptByName(r, m) ==
    [keep |-> m.match, styled |-> r.styled \cup m.styled, ok |-> r.ok /\ m.ok]

\* the role test and the name test, r being the element's computed role
LoopTests(e, f, r) ==
    IF r.role # f.role THEN [keep |-> FALSE, styled |-> r.styled, ok |-> r.ok]
    ELSE IF TruthyStr(f.name) THEN KeptByName(r, MatchesNameFilter(e, f.name, f.exact))
    ELSE [keep |-> TRUE, styled |-> r.styled, ok |-> r.ok]

\* the body of the for-of loop of query and queryAll for one yielded element:
\* does the element pass the role test and the name test
LoopBody(e, f) == LoopTests(e, f, ComputeRole(e, CallBudget))

\* the loop is left: the generator's style lookups join the call's
Finish(acc, g) == [acc EXCEPT !.styled = acc.styled \cup g.styled]

\* the yielded element is recorded, and kept when the loop body says so
Collect(acc, node, b) ==
    [results |-> IF b.keep THEN Append(acc.results, node) ELSE acc.results,
     pulled |-> Append(acc.pulled, node),
     styled |-> acc.styled \cup b.styled,
     ok |-> acc.ok /\ b.ok]

RECURSIVE RunLoop(_, _, _, _)

LoopAfter(nx, f, all, b, acc1) ==
    IF b.keep /\ ~all THEN Finish(acc1, nx.g) ELSE RunLoop(nx.g, f, all, acc1)

LoopKeep(nx, f, all, acc, b) == LoopAfter(nx, f, all, b, Collect(acc, nx.node, b))

LoopOn(nx, f, all, acc) ==
    IF nx.node = NoNode THEN Finish(acc, nx.g)
    ELSE LoopKeep(nx, f, all, acc, LoopBody(nx.node, f))

\* the for-of loop over getElements: all stops it at the first kept element when FALSE.
\* results: the kept elements; pulled: every element the generator yielded
RunLoop(g, f, all, acc) == LoopOn(GenNext(g), f, all, acc)

NoRun == [results |-> <<>>, pulled |-> <<>>, styled |-> {}, ok |-> TRUE]

\* faulty variant: query does not stop at the first match
QueryWithoutEarlyReturn(root, selector) ==
    LET f == parse(selector)
    IN IF ~Truthy(f.role) THEN NoRun ELSE RunLoop(GenStart(root), f, TRUE, NoRun)

\* SelectorEngine.query(root, selector)
Query(root, selector) ==
    LET f == parse(selector)
    IN IF ~Truthy(f.role) THEN NoRun ELSE RunLoop(GenStart(root), f, FALSE, NoRun)

\* faulty variant: queryAll without the early exit for a filter that has no role
QueryAllWithoutRoleCheck(root, selector) ==
    RunLoop(GenStart(root), parse(selector), TRUE, NoRun)

\* SelectorEngine.queryAll(root, selector)
QueryAll(root, selector) ==
    LET f == parse(selector)
    IN IF ~Truthy(f.role) THEN NoRun ELSE RunLoop(GenStart(root), f, TRUE, NoRun)

\* query's return value: the element or null
query(root, selector) ==
    LET r == Query(root, selector).results IN IF r = <<>> THEN NoNode ELSE r[1]

\* queryAll's return value
queryAll(root, selector) == QueryAll(root, selector).results

----------------------------------------------------------------------------
(* Documents the model is run on *)

\* engine calls explored one after the other on the documents of SequenceScenes;
\* every other document is explored for each single call on a new engine
MaxCalls == 2

Node0 ==
    [nodeType |-> ELEMENT_NODE, parentNode |-> NoNode, host |-> NoNode, tagName |-> "",
     role |-> Null, hidden |-> FALSE, ariaHidden |-> Null, display |-> "block",
     visibility |-> "visible", inert |-> FALSE, id |-> <<>>, ariaLabelledby |-> NullStr,
     ariaLabel |-> NullStr, title |-> <<>>, alt |-> <<>>, value |-> <<>>, type |-> "",
     href |-> FALSE, multiple |-> FALSE, htmlFor |-> NullStr, slot |-> "",
     nodeValue |-> <<>>, ariaDescription |-> NullStr]

Doc == [Node0 EXCEPT !.nodeType = DOCUMENT_NODE, !.tagName = "#document"]
Frag(h) == [Node0 EXCEPT !.nodeType = DOCUMENT_FRAGMENT_NODE, !.tagName = "#shadow-root",
                         !.host = h]
El(tag, p) == [Node0 EXCEPT !.tagName = tag, !.parentNode = p]
Txt(p, v) == [Node0 EXCEPT !.nodeType = TEXT_NODE, !.tagName = "#text", !.parentNode = p,
                           !.nodeValue = v]
Input(p, t) == [El("INPUT", p) EXCEPT !.type = t]

HiddenKinds == {"hidden", "aria-hidden", "display", "visibility", "inert"}

\* document d with element n hidden in one of the five ways
Hide(d, n, kind) ==
    CASE kind = "hidden" -> [d EXCEPT ![n].hidden = TRUE]
      [] kind = "aria-hidden" -> [d EXCEPT ![n].ariaHidden = "true"]
      [] kind = "display" -> [d EXCEPT ![n].display = "none"]
      [] kind = "visibility" -> [d EXCEPT ![n].visibility = "hidden"]
      [] kind = "inert" -> [d EXCEPT ![n].inert = TRUE]
      [] OTHER -> d

Internals(role, ariaLabel, refs) ==
    [has |-> TRUE, role |-> role, ariaLabel |-> ariaLabel, ariaLabelledByElements |-> refs]

NoneAttached(d) == [n \in DOMAIN d |-> NoInternals]

Scene(d, att, int, hk, eng, imap, smap, calls) ==
    [dom |-> d, attached |-> att, internals |-> int, hooked |-> hk, engine |-> eng,
     internalsMap |-> imap, shadowdomMap |-> smap, callsLeft |-> calls]

\* A page with three button-role elements (explicit role on a DIV, a BUTTON, a custom
\* element with an ElementInternals role) where the custom element hosts a shadow tree
\* with a slot, default slot content and one slotted child:
\*   1 #document
\*     2 DIV
\*       3 DIV role=button aria-description="d"        4 "a b"
\*       5 BUTTON aria-label="A b" aria-description="e"
\*       6 X-HOST title="a"       (internals.role = "button")
\*         7 #shadow-root
\*           8 SLOT
\*             9 BUTTON title="a"      (default content)
\*         10 SPAN role=button title="b"  (slotted into 8)
ShadowDom ==
    << Doc,
       El("DIV", 1),
       [El("DIV", 2) EXCEPT !.role = "button", !.ariaDescription = <<"d">>],
       Txt(3, <<"a", " ", "b">>),
       [El("BUTTON", 2) EXCEPT !.ariaLabel = <<"A", " ", "b">>, !.ariaDescription = <<"e">>],
       [El("X-HOST", 2) EXCEPT !.title = <<"a">>],
       Frag(6),
       El("SLOT", 7),
       [El("BUTTON", 8) EXCEPT !.title = <<"a">>],
       [El("SPAN", 6) EXCEPT !.role = "button", !.title = <<"b">>] >>

ShadowInternals ==
    [NoneAttached(ShadowDom) EXCEPT ![6] = Internals("button", NullStr, <<NoNode>>)]

\* the shadow page with one element hidden (or none), the host recorded by the tracker,
\* and the same with a shadow root the tracker never saw (declarative shadow root)
ShadowScenes ==
    {Scene(Hide(ShadowDom, n, k), {6}, ShadowInternals, TRUE, "tracker", {6}, {6}, 1) :
        n \in {2, 6, 8, 10}, k \in HiddenKinds \cup {"none"}}
    \cup
    {Scene(Hide(ShadowDom, 6, k), {6}, ShadowInternals, TRUE, "tracker", {6}, {}, 1) :
        k \in {"hidden", "none"}}

\* A host whose only slotted content is a text node, the slot having default content:
\*   1 #document
\*     2 X-HOST
\*       3 #shadow-root
\*         4 SLOT
\*           5 BUTTON title="a"   6 "d"     (default content)
\*       7 "b"                              (slotted into 4)
TextSlotDom ==
    << Doc, El("X-HOST", 1), Frag(2), El("SLOT", 3),
       [El("BUTTON", 4) EXCEPT !.title = <<"a">>], Txt(5, <<"d">>), Txt(2, <<"b">>) >>

TextSlotScenes ==
    {Scene(TextSlotDom, {2}, NoneAttached(TextSlotDom), TRUE, "tracker", {}, {2}, 1)}

\* A page whose custom element has not yet called attachInternals or attachShadow,
\* before the init script and before the engine exist:
\*   1 #document
\*     2 X-EL                 3 "a"
\*       4 #shadow-root (once attached)
\*         5 BUTTON title="b"
LifecycleDom ==
    << Doc, El("X-EL", 1), Txt(2, <<"a">>), Frag(2), [El("BUTTON", 4) EXCEPT !.title = <<"b">>] >>

LifecycleScenes ==
    {Scene(LifecycleDom, {}, NoneAttached(LifecycleDom), FALSE, "none", {}, {}, 1)}

\* A static page queried several times by one engine:
\*   1 #document
\*     2 DIV
\*       3 BUTTON title="a"
\*     4 DIV role=button style="display:none"     5 "b"
SequenceDom ==
    << Doc, El("DIV", 1), [El("BUTTON", 2) EXCEPT !.title = <<"a">>],
       [El("DIV", 1) EXCEPT !.role = "button", !.display = "none"], Txt(4, <<"b">>) >>

SequenceScenes ==
    {Scene(SequenceDom, {}, NoneAttached(SequenceDom), TRUE, "tracker", {}, {}, MaxCalls)}

\* One element of every tag of the role table (and of tags outside it), with and
\* without an explicit role attribute, with and without a recorded override:
\*   1 #document
\*     2 <the element>      3 "a"
PlainTags ==
    DOMAIN TagTable \cup {"SECTION", "DIV", "SPAN", "X-EL"}

TagElements ==
    {El(t, 1) : t \in PlainTags}
    \cup {Input(1, t) : t \in {"button", "submit", "reset", "image", "checkbox", "radio",
                               "text", "email"}}
    \cup {[El("SELECT", 1) EXCEPT !.multiple = m] : m \in BOOLEAN}
    \cup {[El("A", 1) EXCEPT !.href = h] : h \in BOOLEAN}

TagDom(el, role) == << Doc, [el EXCEPT !.role = role], Txt(2, <<"a">>) >>

TagScenes ==
    {Scene(TagDom(el, r), {}, NoneAttached(TagDom(el, r)), TRUE, "tracker", {}, {}, 1) :
        el \in TagElements, r \in {Null, "", "foo", "button"}}
    \cup
    {Scene(TagDom(El("X-EL", 1), r), {},
           [NoneAttached(TagDom(El("X-EL", 1), r)) EXCEPT
               ![2] = Internals(ir, NullStr, <<NoNode>>)],
           TRUE, "tracker", {2}, {}, 1) :
        r \in {Null, "", "foo"}, ir \in {Null, "", "switch"}}

\* One target element with up to two of the name sources present, each present source
\* either whitespace only (1) or a value (2):
\*   1 #document
\*     2 <target id="t">      3 text content
\*     4 LABEL for="t"|"z"    5 label text
\*     6 SPAN id="r"          7 referenced text
\* v = <<cross-reference, aria-label, native label, alt or value, title, content>>
Ws == <<" ">>
Pick(state, value) == IF state = 0 THEN <<>> ELSE IF state = 1 THEN Ws ELSE value

NameTargets == {"BUTTON", "INPUT", "IMG"}

NameTarget(kind, v) ==
    LET base == IF kind = "INPUT" THEN Input(1, "submit") ELSE El(kind, 1)
    IN [base EXCEPT !.id = <<"t">>,
                    !.ariaLabelledby = IF v[1] = 0 THEN NullStr ELSE <<"r">>,
                    !.ariaLabel = IF v[2] = 0 THEN NullStr ELSE Pick(v[2], <<"l">>),
                    !.alt = IF kind = "IMG" THEN Pick(v[4], <<"v">>) ELSE <<>>,
                    !.value = IF kind = "INPUT" THEN Pick(v[4], <<"v">>) ELSE <<>>,
                    !.title = Pick(v[5], <<"t">>)]

NameDom(kind, v) ==
    << Doc,
       NameTarget(kind, v),
       Txt(2, Pick(v[6], <<" ", "c", "\t", " ", "c">>)),
       [El("LABEL", 1) EXCEPT !.htmlFor = IF v[3] = 0 THEN <<"z">> ELSE <<"t">>],
       Txt(4, Pick(v[3], <<"n", " ">>)),
       [El("SPAN", 1) EXCEPT !.id = <<"r">>],
       Txt(6, IF v[1] = 1 THEN Ws ELSE <<"r">>) >>

NameVectors(kind) ==
    {v \in [1..6 -> 0..2] :
        /\ Cardinality({i \in 1..6 : v[i] # 0}) <= 2
        /\ (kind = "BUTTON" => v[4] = 0)
        /\ (kind # "BUTTON" => v[6] = 0)}

NameScenes ==
    {Scene(NameDom(k[1], k[2]), {}, NoneAttached(NameDom(k[1], k[2])), TRUE, "tracker",
           {}, {}, 1) :
        k \in UNION {{<<kind, v>> : v \in NameVectors(kind)} : kind \in NameTargets}}

\* Elements that name each other through aria-labelledby, or through the elements
\* their ElementInternals lists:
\*   1 #document
\*     2 A id="a"    3 text of A
\*     4 B id="b"    5 text of B
\*     6 C id="c"    7 "c"
RefElement(kind, id, by) ==
    [(IF kind = "SECTION" THEN El("SECTION", 1)
      ELSE IF kind = "X-EL" THEN El("X-EL", 1)
      ELSE [El("DIV", 1) EXCEPT !.role = "button"])
     EXCEPT !.id = id, !.ariaLabelledby = by]

CycleDom(kinds, texts, byA, byB, byC) ==
    << Doc,
       RefElement(kinds[1], <<"a">>, byA), Txt(2, texts[1]),
       RefElement(kinds[2], <<"b">>, byB), Txt(4, texts[2]),
       RefElement("DIV", <<"c">>, byC), Txt(6, <<"c">>) >>

CycleDoms ==
    {CycleDom(kinds, texts, byA, byB, byC) :
        kinds \in {<<"DIV", "DIV">>, <<"SECTION", "DIV">>, <<"SECTION", "SECTION">>},
        texts \in {<< <<>>, <<>> >>, << <<"a">>, <<"b">> >>},
        byA \in {<<"a">>, <<"b">>, <<"b", " ", "c">>},
        byB \in {<<"a">>, <<"c">>},
        byC \in {NullStr, <<"a">>}}

InternalsCycleDom == CycleDom(<<"X-EL", "X-EL">>, << <<"a">>, <<>> >>, NullStr, NullStr, NullStr)

CycleScenes ==
    {Scene(d, {}, NoneAttached(d), TRUE, "tracker", {}, {}, 1) : d \in CycleDoms}
    \cup
    {Scene(InternalsCycleDom, {},
           [NoneAttached(InternalsCycleDom) EXCEPT
               ![2] = Internals("button", NullStr, <<4>>),
               ![4] = Internals("button", NullStr, <<2>>)],
           TRUE, "tracker", {2, 4}, {}, 1)}

\* A custom element whose recorded ElementInternals has the role button and may hold
\* a label, with or without an aria-label attribute (each absent, empty or a value):
\*   1 #document
\*     2 X-EL aria-label=...   (internals.ariaLabel = ...)      3 "c"
OverrideLabelDom(attribute) ==
    << Doc, [El("X-EL", 1) EXCEPT !.ariaLabel = attribute], Txt(2, <<"c">>) >>

OverrideLabelScenes ==
    {Scene(OverrideLabelDom(attribute), {},
           [NoneAttached(OverrideLabelDom(attribute)) EXCEPT
               ![2] = Internals("button", label, <<NoNode>>)],
           TRUE, "tracker", {2}, {}, 1) :
        attribute \in {NullStr, <<>>, <<"l">>}, label \in {NullStr, <<>>, <<" ", "i">>}}

\* A checkbox inside a label, and a second label that names an id:
\*   1 #document
\*     2 LABEL                 3 <text of the wrapping label>
\*       4 INPUT type=checkbox id="c"
\*     5 LABEL for="c"|"z"     6 "s"
LabelDom(wrapText, for) ==
    << Doc, El("LABEL", 1), Txt(2, wrapText), [Input(2, "checkbox") EXCEPT !.id = <<"c">>],
       [El("LABEL", 1) EXCEPT !.htmlFor = for], Txt(5, <<"s">>) >>

LabelScenes ==
    {Scene(LabelDom(wrapText, for), {}, NoneAttached(LabelDom(wrapText, for)), TRUE,
           "tracker", {}, {}, 1) :
        wrapText \in {<<>>, <<"w">>}, for \in {<<"c">>, <<"z">>}}

Scenes ==
    ShadowScenes \cup LifecycleScenes \cup SequenceScenes \cup TagScenes
    \cup NameScenes \cup CycleScenes \cup TextSlotScenes \cup OverrideLabelScenes
    \cup LabelScenes

\* roles a page script assigns to an ElementInternals
AssignedRoles == {"button", "switch"}

\* selectors given to the engine: JSON objects as key -> value maps
Sel(role) == [k \in {"role"} |-> role]
SelName(role, name) == [k \in {"role", "name"} |-> IF k = "role" THEN role ELSE name]
SelExact(role, name) ==
    [k \in {"role", "name", "exact"} |->
        IF k = "role" THEN role ELSE IF k = "name" THEN name ELSE "true"]
NoKeys == [k \in {} |-> Null]

\* the payload getByComputedRole(role, options) hands to the engine: JSON.stringify
\* leaves out the keys whose value is undefined
getByComputedRole(role, options) ==
    [k \in {"role"} \cup (IF TruthyStr(options.name) THEN {"name"} ELSE {})
                     \cup (IF TruthyStr(options.description) THEN {"description"} ELSE {})
                     \cup (IF options.exact THEN {"exact"} ELSE {}) |->
        IF k = "role" THEN role
        ELSE IF k = "name" THEN options.name
        ELSE IF k = "description" THEN options.description
        ELSE "true"]

Options(name, description, exact) ==
    [name |-> name, description |-> description, exact |-> exact]

Selectors ==
    {Sel("button"), SelName("button", <<"a">>), SelExact("button", <<"A", " ", "b">>),
     SelName("button", <<>>), NoKeys, SelName("", <<"a">>),
     [k \in {"name"} |-> <<"a">>],
     getByComputedRole("button", Options(<<"A">>, NullStr, FALSE)),
     getByComputedRole("button", Options(<<"a">>, NullStr, TRUE)),
     getByComputedRole("button", Options(<<"a">>, <<"d">>, FALSE)),
     getByComputedRole("button", Options(<<>>, <<"d">>, FALSE))}

----------------------------------------------------------------------------
(* playwright-utils: the prototypes of the page and of its locators *)

MaxRegistrations == 2   \* registerLocator calls on the page
MaxChain == 3           \* method calls in one chain

NoProto == 0            \* null, or Object.prototype: where entries() stops
LocatorPrototype == 1   \* the library's Locator.prototype
PagePrototype == 2      \* the library's Page.prototype
PromisePrototype == 3   \* what an asynchronous method returns is a Promise
Undefined == -1         \* a falsy return value: it has no prototype to read

MethodNames ==
    {"locator", "getByRole", "removeLocatorHandler", "getByComputedRole", "customMethod",
     "noResult"}

\* a function-valued property: the original function and the wrappers put around
\* it, innermost first; each wrapper keeps the two prototypes of its closure
NoMethod == [base |-> "<none>", wrappers |-> <<>>]
NoMethods == [name \in MethodNames |-> NoMethod]
Method(base) == [base |-> base, wrappers |-> <<>>]

\* the library before any registerLocator
LibraryPrototypes ==
    << [proto |-> NoProto,
        own |-> [NoMethods EXCEPT !["locator"] = Method("Locator.locator"),
                                  !["getByRole"] = Method("Locator.getByRole")]],
       [proto |-> NoProto,
        own |-> [NoMethods EXCEPT !["locator"] = Method("Page.locator"),
                                  !["getByRole"] = Method("Page.getByRole"),
                                  !["removeLocatorHandler"] =
                                      Method("Page.removeLocatorHandler")]],
       [proto |-> NoProto, own |-> NoMethods] >>

\* library methods that return a new Locator
ReturnsNewLocator ==
    {"Locator.locator", "Locator.getByRole", "Page.locator", "Page.getByRole"}

\* additional methods: getByComputedRole and customMethod return this.locator(...),
\* noResult returns nothing
AdditionalMethodSets == {{}, {"getByComputedRole"}, {"customMethod"}, {"noResult"}}

\* property lookup: the first object of the prototype chain that has the property
RECURSIVE Get(_, _, _)
Get(h, object, name) ==
    IF object = NoProto THEN NoMethod
    ELSE IF h[object].own[name] # NoMethod THEN h[object].own[name]
    ELSE Get(h, h[object].proto, name)

\* faulty variant: the wrapper returns what the function returned, as it is
RetagNever(wrappers, returnValue) == returnValue

\* what the wrappers around a function make of its return value: each sets the
\* prototype of a truthy value whose prototype is initialLocatorPrototype
RECURSIVE Retag(_, _)
Retag(wrappers, returnValue) ==
    IF wrappers = <<>> THEN returnValue
    ELSE Retag(Tail(wrappers),
               IF returnValue # Undefined
                  /\ returnValue = Head(wrappers).initialLocatorPrototype
               THEN Head(wrappers).patchedLocatorPrototype
               ELSE returnValue)

\* this[name](...): the prototype of the value returned
RECURSIVE Invoke(_, _, _)
ReturnValue(h, this, base) ==
    IF base \in ReturnsNewLocator THEN LocatorPrototype
    ELSE IF base = "noResult" THEN Undefined
    ELSE IF base \in UNION AdditionalMethodSets THEN Invoke(h, this, "locator")
    ELSE PromisePrototype
InvokeMethod(h, this, method) ==
    Retag(method.wrappers, ReturnValue(h, this, method.base))
Invoke(h, this, name) == InvokeMethod(h, this, Get(h, this, name))

\* entries(object): the function-valued properties along the prototype chain, the
\* nearest of each name
entries(h, object) == {name \in MethodNames : Get(h, object, name) # NoMethod}

Wrap(method, initial, patched) ==
    [method EXCEPT !.wrappers =
        Append(@, [initialLocatorPrototype |-> initial,
                   patchedLocatorPrototype |-> patched])]

\* faulty variant: the wrappers are set on the object the created prototype inherits
\* from, which is the prototype the methods were found on
patchPrototypeMethodsInPlace(h, prototype, patched, initial, additional) ==
    [h EXCEPT ![h[prototype].proto].own =
        [name \in MethodNames |->
            IF name \in additional THEN Wrap(Method(name), initial, patched)
            ELSE IF name \in entries(h, prototype)
                 THEN Wrap(Get(h, prototype, name), initial, patched)
                 ELSE NoMethod]]

patchPrototypeMethods(h, prototype, patched, initial, additional) ==
    [h EXCEPT ![prototype].own =
        [name \in MethodNames |->
            IF name \in additional THEN Wrap(Method(name), initial, patched)
            ELSE IF name \in entries(h, prototype)
                 THEN Wrap(Get(h, prototype, name), initial, patched)
                 ELSE NoMethod]]

\* Object.create twice, then the two patchPrototypeMethods calls
Created(h, initial, pagePrototype) ==
    h \o << [proto |-> initial, own |-> NoMethods],
            [proto |-> pagePrototype, own |-> NoMethods] >>
PatchedBoth(h, patchedLocator, patchedPage, initial, additional) ==
    patchPrototypeMethods(
        patchPrototypeMethods(h, patchedLocator, patchedLocator, initial, additional),
        patchedPage, patchedLocator, initial, additional)
registerLocator(h, pagePrototype, additional) ==
    PatchedBoth(Created(h, Invoke(h, pagePrototype, "locator"), pagePrototype),
                Len(h) + 1, Len(h) + 2, Invoke(h, pagePrototype, "locator"), additional)

\* an object is a locator when Locator.prototype is on its prototype chain
RECURSIVE IsLocator(_, _)
IsLocator(h, object) ==
    /\ object \notin {NoProto, Undefined}
    /\ \/ object = LocatorPrototype
       \/ IsLocator(h, h[object].proto)

----------------------------------------------------------------------------
(* State machine *)

\* nodes that exist: in the document tree or in an attached shadow tree
RECURSIVE IsLive(_)
RECURSIVE IsLiveRoot(_)
IsLive(n) == IsLiveRoot(getRootNode(n))
IsLiveRoot(r) ==
    \/ dom[r].nodeType = DOCUMENT_NODE
    \/ /\ IsAttachedShadowRoot(r)
       /\ IsLive(dom[r].host)

LiveElements == {n \in Elements : IsLive(n)}
Roots == {n \in Nodes : isSelectorRoot(n) /\ IsLive(n)}

NoCall ==
    [op |-> "none", node |-> NoNode, selector |-> NoKeys, knownRole |-> Null,
     allowNameFromContent |-> TRUE, results |-> <<>>, pulled |-> <<>>, role |-> Null,
     name |-> <<>>, hidden |-> FALSE, ok |-> TRUE, returned |-> NoNode]

\* the test process before any registerLocator: the page and its locators have the
\* library's prototypes
TestProcessInit ==
    /\ prototypes = LibraryPrototypes
    /\ page = PagePrototype
    /\ patchedLocatorPrototype = NoProto
    /\ additionalMethods = {}
    /\ registered = 0
    /\ chain = <<>>

PageAt(s) ==
    /\ dom = s.dom
    /\ attached = s.attached
    /\ internals = s.internals
    /\ hooked = s.hooked
    /\ engine = s.engine
    /\ internalsMap = [e \in s.internalsMap |-> e]
    /\ shadowdomMap = [e \in s.shadowdomMap |-> shadowRootOf(e)]
    /\ callsLeft = s.callsLeft
    /\ computedStyleCache = {}
    /\ call = NoCall

Init ==
    \E s \in Scenes :
        /\ PageAt(s)
        /\ TestProcessInit

\* new WeakMap(), and map.set(key, value)
NewWeakMap == [e \in {} |-> NoNode]
WeakMapSet(map, key, value) ==
    [e \in DOMAIN map \cup {key} |-> IF e = key THEN value ELSE map[e]]

\* scriptForInit(): create the two maps, wrap attachInternals and attachShadow, publish
\* the maps on the document
ScriptForInit ==
    /\ ~hooked
    /\ hooked' = TRUE
    /\ internalsMap' = NewWeakMap
    /\ shadowdomMap' = NewWeakMap
    /\ call' = NoCall
    /\ UNCHANGED <<dom, attached, internals, engine, computedStyleCache, callsLeft>>
    /\ UNCHANGED testVars

\* scriptForSelector(): the engine takes the maps published on the document, or two
\* maps of its own when there are none; its computed-style cache starts empty
ScriptForSelector ==
    /\ engine = "none"
    /\ engine' = IF hooked THEN "tracker" ELSE "own"
    /\ computedStyleCache' = {}
    /\ call' = NoCall
    /\ UNCHANGED <<dom, attached, internals, hooked, internalsMap, shadowdomMap,
                   callsLeft>>
    /\ UNCHANGED testVars

\* autonomous custom elements: the only ones whose attachInternals does not throw
IsCustomElement(e) == dom[e].tagName \in {"X-EL", "X-HOST"}

\* the browser's attachInternals throws on an element that is no autonomous custom
\* element and on one whose ElementInternals was attached before; otherwise it
\* returns the element's new ElementInternals (known by its element)
attachInternalsThrows(e) == ~IsCustomElement(e) \/ internals[e].has

\* the browser's attachShadow throws on an element that has a shadow root and on
\* one that cannot host one; otherwise it returns the element's new shadow root
CanHostShadow(e) ==
    /\ IsCustomElement(e) \/ dom[e].tagName \in {"DIV", "SPAN", "SECTION", "ARTICLE"}
    /\ \E f \in Nodes : dom[f].nodeType = DOCUMENT_FRAGMENT_NODE /\ dom[f].host = e
attachShadowThrows(e) == e \in attached \/ ~CanHostShadow(e)
NewShadowRoot(e) ==
    First(SortedSeq({f \in Nodes : dom[f].nodeType = DOCUMENT_FRAGMENT_NODE
                                    /\ dom[f].host = e}))

\* faulty variant: the element is recorded before the browser's operation is called
WrapperSetFirst(map, this, throws, returned) ==
    [threw |-> throws, returned |-> IF throws THEN NoNode ELSE returned,
     map |-> WeakMapSet(map, this, returned)]

\* the wrapper scriptForInit installs: call the browser's operation, record what it
\* returned under the element, return it; an exception leaves before map.set
Wrapper(map, this, throws, returned) ==
    IF throws THEN [threw |-> TRUE, returned |-> NoNode, map |-> map]
    ELSE [threw |-> FALSE, returned |-> returned, map |-> WeakMapSet(map, this, returned)]

\* the call without the wrapper
Unwrapped(map, this, throws, returned) ==
    [threw |-> throws, returned |-> IF throws THEN NoNode ELSE returned, map |-> map]

Attach(map, this, throws, returned) ==
    IF hooked THEN Wrapper(map, this, throws, returned)
    ELSE Unwrapped(map, this, throws, returned)

\* el.attachInternals() called by a page script, ended as r, seen afterwards as c
AttachInternalsCall(e, r, c) ==
    /\ e \in LiveElements
    /\ internals' = IF r.threw THEN internals
                    ELSE [internals EXCEPT ![e] = Internals(Null, NullStr, <<NoNode>>)]
    /\ internalsMap' = r.map
    /\ call' = c
    /\ UNCHANGED <<dom, attached, hooked, shadowdomMap, engine, computedStyleCache,
                   callsLeft>>
    /\ UNCHANGED testVars

\* el.attachInternals() returning: through the wrapper once the init script has run
AttachInternals(e) ==
    /\ ~attachInternalsThrows(e)
    /\ AttachInternalsCall(e, Attach(internalsMap, e, FALSE, e), NoCall)

\* a page script assigns internals.role on the object attachInternals returned
SetInternalsRole(e, r) ==
    /\ e \in LiveElements
    /\ internals[e].has
    /\ internals[e].role # r
    /\ internals' = [internals EXCEPT ![e].role = r]
    /\ call' = NoCall
    /\ UNCHANGED <<dom, attached, hooked, internalsMap, shadowdomMap, engine,
                   computedStyleCache, callsLeft>>
    /\ UNCHANGED testVars

\* el.attachShadow(options) returning: through the wrapper once the init script has run
AttachShadowCall(e, r, c) ==
    /\ e \in LiveElements
    /\ attached' = IF r.threw THEN attached ELSE attached \cup {e}
    /\ shadowdomMap' = r.map
    /\ call' = c
    /\ UNCHANGED <<dom, internals, hooked, internalsMap, engine, computedStyleCache,
                   callsLeft>>
    /\ UNCHANGED testVars

AttachShadow(e) ==
    /\ ~attachShadowThrows(e)
    /\ AttachShadowCall(e, Attach(shadowdomMap, e, FALSE, NewShadowRoot(e)), NoCall)

EngineCall(c, styled) ==
    /\ engine # "none"
    /\ callsLeft > 0
    /\ callsLeft' = callsLeft - 1
    /\ call' = c
    /\ computedStyleCache' = computedStyleCache \cup styled
    /\ UNCHANGED <<dom, attached, internals, hooked, internalsMap, shadowdomMap, engine>>
    /\ UNCHANGED testVars

\* a query or queryAll that ran as r
QueryCall(op, root, selector, r) ==
    EngineCall([NoCall EXCEPT !.op = op, !.node = root, !.selector = selector,
                              !.results = r.results, !.pulled = r.pulled, !.ok = r.ok],
               r.styled)

\* engine.query(root, selector)
CallQuery(root, selector) == QueryCall("query", root, selector, Query(root, selector))

\* engine.queryAll(root, selector)
CallQueryAll(root, selector) ==
    QueryCall("queryAll", root, selector, QueryAll(root, selector))

RoleCall(e, r) ==
    EngineCall([NoCall EXCEPT !.op = "computeElementRole", !.node = e,
                              !.role = r.role, !.ok = r.ok],
               r.styled)

\* computeElementRole(el) on its own
CallComputeElementRole(e) == RoleCall(e, ComputeRole(e, CallBudget))

NameCall(e, knownRole, allow, r) ==
    EngineCall([NoCall EXCEPT !.op = "computeAccessibleName", !.node = e,
                              !.knownRole = knownRole, !.allowNameFromContent = allow,
                              !.name = r.name, !.ok = r.ok],
               r.styled)

\* computeAccessibleName(el, opts) on its own
CallComputeAccessibleName(e, knownRole, allow) ==
    NameCall(e, knownRole, allow, ComputeName(e, FreshOpts(knownRole, allow), CallBudget))

HiddenCall(e, walk) ==
    EngineCall([NoCall EXCEPT !.op = "isElementHidden", !.node = e,
                              !.hidden = walk.hidden],
               walk.styled)

\* isElementHidden(target) on its own
CallIsElementHidden(e) == HiddenCall(e, HiddenWalk(e))

Next ==
    \/ ScriptForInit
    \/ ScriptForSelector
    \/ \E e \in Elements : AttachInternals(e)
    \/ \E e \in Elements, r \in AssignedRoles : SetInternalsRole(e, r)
    \/ \E e \in Elements : AttachShadow(e)
    \/ \E root \in Roots, sel \in Selectors : CallQuery(root, sel)
    \/ \E root \in Roots, sel \in Selectors : CallQueryAll(root, sel)
    \/ \E e \in LiveElements : CallComputeElementRole(e)
    \/ \E e \in LiveElements, o \in {<<Null, TRUE>>, <<"region", FALSE>>} :
           CallComputeAccessibleName(e, o[1], o[2])
    \/ \E e \in LiveElements : CallIsElementHidden(e)

Spec == Init /\ [][Next]_vars

----------------------------------------------------------------------------
(* State machine of the test process: registerLocator and chained method calls *)

\* registerLocator(name, page, selectorScript, additionalMethods) up to its return
RegisterLocator(additional) ==
    /\ registered < MaxRegistrations
    /\ prototypes' = registerLocator(prototypes, page, additional)
    /\ patchedLocatorPrototype' = Len(prototypes) + 1
    /\ page' = Len(prototypes) + 2
    /\ additionalMethods' = additionalMethods \cup additional
    /\ registered' = registered + 1
    /\ chain' = <<>>
    /\ UNCHANGED browserVars

\* the object the next call of the chain is made on
Receiver == IF chain = <<>> THEN page ELSE chain[Len(chain)].returned

\* one more synchronous call of the chain: receiver[name](...)
CallMethod(name) ==
    /\ Len(chain) < MaxChain
    /\ Receiver # Undefined
    /\ name \in entries(prototypes, Receiver)
    /\ chain' = Append(chain, [this |-> Receiver, name |-> name,
                               returned |-> Invoke(prototypes, Receiver, name)])
    /\ UNCHANGED <<prototypes, page, patchedLocatorPrototype, additionalMethods,
                   registered>>
    /\ UNCHANGED browserVars

\* the expression is complete; the next chain starts at the page again
NewChain ==
    /\ chain # <<>>
    /\ chain' = <<>>
    /\ UNCHANGED <<prototypes, page, patchedLocatorPrototype, additionalMethods,
                   registered>>
    /\ UNCHANGED browserVars

LocatorInit ==
    /\ \E s \in LifecycleScenes : PageAt(s)
    /\ TestProcessInit

LocatorNext ==
    \/ \E additional \in AdditionalMethodSets : RegisterLocator(additional)
    \/ \E name \in MethodNames : CallMethod(name)
    \/ NewChain

LocatorSpec == LocatorInit /\ [][LocatorNext]_vars

----------------------------------------------------------------------------
(* What the claims speak of, stated without the engine's traversal machinery *)

\* the element itself is hidden in one of the five ways
OwnHidden(e) ==
    \/ dom[e].hidden
    \/ dom[e].ariaHidden = "true"
    \/ dom[e].display = "none"
    \/ dom[e].visibility = "hidden"
    \/ dom[e].inert

\* n and its ancestors inside its own tree
RECURSIVE TreeAncestors(_)
TreeAncestors(n) ==
    IF n = NoNode THEN {} ELSE {n} \cup TreeAncestors(dom[n].parentNode)

\* hidden as seen from inside the element's own tree
HiddenInTree(e) == \E a \in TreeAncestors(e) \cap Elements : OwnHidden(a)

\* where the depth-first traversal goes below a visible element
Below(e) ==
    IF IsSlot(e) /\ assignedElementsFlat(e) # <<>> THEN assignedElementsFlat(e)
    ELSE IF engine = "tracker" /\ e \in DOMAIN shadowdomMap
         THEN childNodes(shadowRootOf(e))
    ELSE childNodes(e)

\* the elements of the depth-first pre-order traversal from n
RECURSIVE Visit(_)
RECURSIVE VisitEach(_)
Visit(n) ==
    IF dom[n].nodeType = TEXT_NODE THEN <<>>
    ELSE IF dom[n].nodeType # ELEMENT_NODE THEN VisitEach(childNodes(n))
    ELSE IF HiddenInTree(n) THEN <<>>
    ELSE <<n>> \o VisitEach(Below(n))
VisitEach(ns) ==
    IF ns = <<>> THEN <<>> ELSE Visit(Head(ns)) \o VisitEach(Tail(ns))

\* the name filter of a selector: substring without case, or the whole name when exact
NameSatisfies(name, f) ==
    IF f.exact = "true" THEN name = f.name
    ELSE includes(toLowerCase(name), toLowerCase(f.name))

\* the element has the filter's role and, when a name is asked for, a name that fits
Fits(e, f) ==
    /\ computeElementRole(e) = f.role
    /\ TruthyStr(f.name) => NameSatisfies(computeAccessibleName(e, Null, TRUE), f)

IsQueryCall == call.op \in {"query", "queryAll"}
HasRole(selector) == Truthy(parse(selector).role)

----------------------------------------------------------------------------
(* C1 *)

\* C1: for every root and every filter that carries a role, queryAll returns exactly
\* the elements of the depth-first pre-order traversal from the root (hidden elements
\* and their subtrees skipped, a slot with assigned elements replaced by them, a
\* tracked host replaced by its shadow root, ordinary children otherwise) that have
\* the filter's role and satisfy its name filter, in traversal order.
C1_QueryAllIsFilteredTraversal ==
    (call.op = "queryAll" /\ HasRole(call.selector)) =>
        call.results = SelectSeq(Visit(call.node), LAMBDA e : Fits(e, parse(call.selector)))

\* C1 witness: queryAll from the document returned, in order, the DIV with the explicit
\* role, the BUTTON, the custom element with the override and the slotted SPAN, and not
\* the slot's default BUTTON.
C1_Witness ==
    /\ call.op = "queryAll"
    /\ dom[call.node].nodeType = DOCUMENT_NODE
    /\ Len(call.results) = 4
    /\ Truthy(dom[call.results[1]].role)
    /\ dom[call.results[2]].tagName = "BUTTON"
    /\ internalsMapGet(call.results[3]).role = "button"
    /\ shadowdomMapGet(call.results[3]) # NoNode
    /\ \E i \in DOMAIN call.pulled : IsSlot(call.pulled[i])
    /\ dom[call.results[4]].parentNode = call.results[3]
    /\ \E e \in LiveElements : dom[e].tagName = "BUTTON" /\ IsSlot(dom[e].parentNode)

----------------------------------------------------------------------------
(* C2 *)

\* C2: query returns the first element of queryAll for the same root and filter, and
\* null exactly when queryAll returns nothing.
C2_QueryIsFirstOfQueryAll ==
    call.op = "query" =>
        LET all == queryAll(call.node, call.selector)
        IN call.results = IF all = <<>> THEN <<>> ELSE <<all[1]>>

\* C2 witness: a query that returned an element where queryAll returns several.
C2_Witness ==
    /\ call.op = "query"
    /\ call.results # <<>>
    /\ Len(queryAll(call.node, call.selector)) >= 2

----------------------------------------------------------------------------
(* C3 *)

\* the slot of an attached shadow tree that element e is assigned to, or NoNode
AssignedSlot(e) ==
    LET p == dom[e].parentNode
        slots == IF p # NoNode /\ p \in attached
                 THEN {s \in Elements : IsSlot(s) /\ getRootNode(s) = shadowRootOf(p)
                                        /\ \E i \in DOMAIN assignedNodes(s) :
                                               assignedNodes(s)[i] = e}
                 ELSE {}
    IN IF slots = {} THEN NoNode ELSE CHOOSE x \in slots : TRUE

\* e, or something e is inside of, is hidden: ancestors, the host of the shadow tree
\* e is in, and the slot e is redistributed into
RECURSIVE HiddenOrInsideHidden(_)
HiddenOrInsideHidden(n) ==
    IF n = NoNode THEN FALSE
    ELSE \/ dom[n].nodeType = ELEMENT_NODE /\ OwnHidden(n)
         \/ HiddenOrInsideHidden(dom[n].parentNode)
         \/ dom[n].nodeType = DOCUMENT_FRAGMENT_NODE /\ HiddenOrInsideHidden(dom[n].host)
         \/ dom[n].nodeType = ELEMENT_NODE /\ HiddenOrInsideHidden(AssignedSlot(n))

\* C3: for every root and filter, no element returned by query or queryAll is hidden
\* or is a descendant of a hidden element, the content of a hidden host's shadow root
\* and content redistributed into a hidden element included.
C3_NoHiddenResult ==
    IsQueryCall =>
        \A i \in DOMAIN call.results : ~HiddenOrInsideHidden(call.results[i])

----------------------------------------------------------------------------
(* C4 *)

\* the ancestors the traversal passes through to reach n: parents, and the host of a
\* shadow root the tracker recorded
RECURSIVE TraversalAncestors(_)
TraversalAncestors(n) ==
    IF n = NoNode THEN {}
    ELSE {n} \cup TraversalAncestors(dom[n].parentNode)
             \cup (IF /\ dom[n].nodeType = DOCUMENT_FRAGMENT_NODE
                      /\ shadowdomMapGet(dom[n].host) = n
                   THEN TraversalAncestors(dom[n].host) ELSE {})

\* C4: isElementHidden(E) is true whenever an ancestor of E that the traversal passes
\* through to reach E is hidden, the host of the shadow root that contains E included.
C4_HiddenIsMonotone ==
    call.op = "isElementHidden" =>
        ((\E a \in (TraversalAncestors(call.node) \ {call.node}) \cap Elements : OwnHidden(a))
            => call.hidden)

----------------------------------------------------------------------------
(* C5 *)

\* C5: when the parsed filter has no role (key absent or empty), query returns null
\* and queryAll the empty sequence, no element is visited and the call returns.
C5_NoRoleNoResult ==
    (IsQueryCall /\ ~HasRole(call.selector)) =>
        /\ call.results = <<>>
        /\ call.pulled = <<>>
        /\ call.ok

\* C5 witness: a role-less query on a root under which a button query finds elements.
C5_Witness ==
    /\ IsQueryCall
    /\ ~HasRole(call.selector)
    /\ "name" \in DOMAIN call.selector
    /\ queryAll(call.node, Sel("button")) # <<>>

----------------------------------------------------------------------------
(* C6 *)

\* C6: for every element with a non-empty explicit role attribute, computeElementRole
\* returns that attribute verbatim, whatever the tag, the tag table's role for it, the
\* override recorded for it, and whether or not the string is a known role.
C6_ExplicitRoleVerbatim ==
    (call.op = "computeElementRole" /\ Truthy(dom[call.node].role)) =>
        call.role = dom[call.node].role

\* C6 witness: the role was computed for an element whose explicit role is no ARIA
\* role and whose tag the table maps to another role, and, in another document, for a
\* custom element with a recorded override.
C6_Witness ==
    /\ call.op = "computeElementRole"
    /\ dom[call.node].role = "foo"
    /\ \/ dom[call.node].tagName = "BUTTON"
       \/ Truthy(internalsMapGet(call.node).role)

----------------------------------------------------------------------------
(* C7 *)

Headings == {"H1", "H2", "H3", "H4", "H5", "H6"}

\* the role the claim gives an element that has no explicit role attribute, for the
\* tags it spells out; TagTable for the other tags of the table
ClaimedRole(e) ==
    LET tag == dom[e].tagName
        type == dom[e].type
    IN IF tag \in Headings THEN "heading"
       ELSE IF tag \in {"OL", "UL"} THEN "list"
       ELSE IF tag = "LI" THEN "listitem"
       ELSE IF tag = "INPUT"
            THEN (IF type \in {"button", "submit", "reset", "image"} THEN "button"
                  ELSE IF type = "checkbox" THEN "checkbox"
                  ELSE IF type = "radio" THEN "radio"
                  ELSE "textbox")
       ELSE IF tag = "SELECT" THEN (IF dom[e].multiple THEN "listbox" ELSE "combobox")
       ELSE IF tag = "A" THEN (IF dom[e].href THEN "link" ELSE Null)
       ELSE IF tag \in DOMAIN TagTable THEN TagTable[tag]
       ELSE IF e \in DOMAIN internalsMap /\ engine = "tracker"
               /\ internals[e].role \notin {Null, ""}
            THEN internals[e].role
       ELSE Null

\* C7: for every element without an explicit role attribute, computeElementRole is the
\* tag table's role when the tag is in the table, else the recorded override's role
\* when that is non-empty, else absent; a section is region or generic.
C7_TagTableThenOverride ==
    (call.op = "computeElementRole" /\ ~Truthy(dom[call.node].role)) =>
        IF dom[call.node].tagName = "SECTION" THEN call.role \in {"region", "generic"}
        ELSE call.role = ClaimedRole(call.node)

\* C7 witness: the role was computed for a custom element without a role attribute and
\* came from its recorded override.
C7_Witness ==
    /\ call.op = "computeElementRole"
    /\ ~Truthy(dom[call.node].role)
    /\ dom[call.node].tagName \notin DOMAIN TagTable
    /\ internalsMapGet(call.node).role = "switch"
    /\ call.role = "switch"

----------------------------------------------------------------------------
(* C8 *)

\* the element's explicit label: the aria-label attribute, else the override's label
ExplicitLabel(e) ==
    IF dom[e].ariaLabel # NullStr THEN dom[e].ariaLabel
    ELSE IF internalsMapGet(e).ariaLabel # NullStr THEN internalsMapGet(e).ariaLabel
    ELSE <<>>

\* the type-specific attribute: alt of an image or image input, value of a button input
TypeAttribute(e) ==
    IF dom[e].tagName = "IMG" THEN dom[e].alt
    ELSE IF dom[e].tagName = "INPUT" /\ dom[e].type = "image" THEN dom[e].alt
    ELSE IF dom[e].tagName = "INPUT" /\ dom[e].type \in {"button", "submit", "reset"}
    THEN dom[e].value
    ELSE <<>>

\* the normalized value of each step of the chain for element e, in order; the
\* cross-reference step while e itself is being computed
StepValues(e) ==
    << normalize(ComputeNameRefs(labelledByElements(e),
                                 [FreshOpts(Null, TRUE) EXCEPT !.visited = {e}],
                                 CallBudget).texts),
       normalize(<<ExplicitLabel(e)>>),
       IF associatedLabelText(e) = NullStr THEN <<>> ELSE associatedLabelText(e),
       normalize(<<TypeAttribute(e)>>),
       normalize(<<dom[e].title>>),
       asText(e) >>

FirstNonEmpty(steps) ==
    LET hits == SelectSeq(steps, NonEmptyStr)
    IN IF hits = <<>> THEN <<>> ELSE hits[1]

\* C8: computeAccessibleName returns the value of the first step, in the order
\* cross-references, explicit label, native label, alt / value, title, text content,
\* whose normalized value is non-empty; a step that is empty or only whitespace never
\* ends the chain.
C8_FirstNonEmptyStepWins ==
    call.op = "computeAccessibleName" =>
        call.name = FirstNonEmpty(StepValues(call.node))

----------------------------------------------------------------------------
(* C9 *)

\* a and b name each other, and only each other, as cross-reference name sources
Mutual(a, b) ==
    /\ a # b
    /\ labelledByElements(a) = <<b>>
    /\ labelledByElements(b) = <<a>>

\* the name x gets from the steps after the cross-reference step
RestName(x) == NameAfterRefs(x, FreshOpts(Null, TRUE), CallBudget).name

\* C9 as stated: when A and B name each other as cross-reference name sources,
\* computeAccessibleName of each returns the empty string, with no exception.
C9_MutualNamesAreEmpty ==
    (call.op = "computeAccessibleName" /\ \E b \in LiveElements : Mutual(call.node, b)) =>
        (call.ok /\ call.name = <<>>)

\* C9 amended: when A and B name each other as cross-reference name sources,
\* computeAccessibleName(A) returns without exception, the nested computation that
\* comes back to A yielding the empty string: the result is the name B gets from its
\* remaining sources, or A's own remaining-source name when B has none, and so is
\* empty only when neither has another name source.
C9_MutualNamesFallBack ==
    call.op = "computeAccessibleName" =>
        \A b \in LiveElements :
            Mutual(call.node, b) =>
                /\ call.ok
                /\ call.name = IF RestName(b) # <<>> THEN RestName(b)
                               ELSE RestName(call.node)

\* C9 witness: the name was computed for an element of a mutually referencing pair
\* and is the other element's text.
C9_Witness ==
    /\ call.op = "computeAccessibleName"
    /\ \E b \in LiveElements :
           /\ Mutual(call.node, b)
           /\ call.name = asText(b)
           /\ call.name # <<>>

----------------------------------------------------------------------------
(* C10 *)

\* C10: every computeAccessibleName, computeElementRole, query and queryAll returns,
\* whatever the graph of cross-references (self-references, cycles, sections whose
\* role computation computes a name): no computation nests deeper than CallBudget.
C10_EveryCallReturns == call.ok

\* e is on a cycle of cross-references
RECURSIVE RefReach(_, _)
RefReach(S, k) ==
    IF k = 0 THEN S
    ELSE RefReach(S \cup UNION {{labelledByElements(x)[i] : i \in DOMAIN labelledByElements(x)}
                                : x \in S}, k - 1)
OnRefCycle(e) ==
    e \in RefReach({labelledByElements(e)[i] : i \in DOMAIN labelledByElements(e)},
                   Cardinality(Elements))

\* C10 witness: a name-filtered queryAll returned after visiting a section that is on
\* a cycle of cross-references.
C10_Witness ==
    /\ call.op = "queryAll"
    /\ TruthyStr(parse(call.selector).name)
    /\ call.ok
    /\ \E i \in DOMAIN call.pulled :
           dom[call.pulled[i]].tagName = "SECTION" /\ OnRefCycle(call.pulled[i])
    /\ \E i \in DOMAIN call.results : OnRefCycle(call.results[i])

----------------------------------------------------------------------------
(* C11 *)

\* a string with its upper-case letters replaced by the lower-case ones
Fold(str) ==
    [i \in DOMAIN str |-> IF str[i] = "A" THEN "a" ELSE IF str[i] = "B" THEN "b" ELSE str[i]]

\* sub occurs in str at some offset
Contains(str, sub) ==
    \E off \in 0..Len(str) :
        /\ off + Len(sub) <= Len(str)
        /\ \A k \in 1..Len(sub) : str[off + k] = sub[k]

InResults(e) == \E j \in DOMAIN call.results : call.results[j] = e

\* C11: for every visited element whose role matches and every non-empty name filter,
\* the element is returned iff its accessible name contains the filter without regard
\* to case (exact false or absent), or equals the filter as a whole, case-sensitively
\* (exact true).
C11_NameFilterSemantics ==
    (call.op = "queryAll" /\ HasRole(call.selector)
        /\ TruthyStr(parse(call.selector).name)) =>
        \A i \in DOMAIN call.pulled :
            computeElementRole(call.pulled[i]) = parse(call.selector).role =>
                (InResults(call.pulled[i]) <=>
                    IF parse(call.selector).exact = "true"
                    THEN computeAccessibleName(call.pulled[i], Null, TRUE)
                            = parse(call.selector).name
                    ELSE Contains(Fold(computeAccessibleName(call.pulled[i], Null, TRUE)),
                                  Fold(parse(call.selector).name)))

\* C11 witness: a filter "A" without exact returned an element named "a b" and left
\* out a visited element of the same role whose name does not contain it.
C11_Witness ==
    /\ call.op = "queryAll"
    /\ parse(call.selector).name = <<"A">>
    /\ parse(call.selector).exact = Null
    /\ \E i \in DOMAIN call.results :
           computeAccessibleName(call.results[i], Null, TRUE) = <<"a", " ", "b">>
    /\ \E i \in DOMAIN call.pulled :
           /\ computeElementRole(call.pulled[i]) = "button"
           /\ ~InResults(call.pulled[i])

----------------------------------------------------------------------------
(* C12 *)

\* C12: for every filter that carries a name key, the empty string included, no element
\* returned by query or queryAll has an empty accessible name.
C12_EmptyNameNeverReturned ==
    (IsQueryCall /\ "name" \in DOMAIN call.selector) =>
        \A i \in DOMAIN call.results :
            computeAccessibleName(call.results[i], Null, TRUE) # <<>>

----------------------------------------------------------------------------
(* C13 *)

\* the accessible description of an element: its aria-description, empty when absent
AccessibleDescription(e) ==
    IF dom[e].ariaDescription = NullStr THEN <<>> ELSE dom[e].ariaDescription

\* C13: when the payload of getByComputedRole carries a description, every located
\* element has an accessible description that matches it (contains it without regard
\* to case, or equals it when exact is set).
C13_DescriptionFilters ==
    (IsQueryCall /\ "description" \in DOMAIN call.selector) =>
        \A i \in DOMAIN call.results :
            IF parse(call.selector).exact = "true"
            THEN AccessibleDescription(call.results[i]) = call.selector["description"]
            ELSE Contains(Fold(AccessibleDescription(call.results[i])),
                          Fold(call.selector["description"]))

----------------------------------------------------------------------------
(* C14 *)

\* the slots that currently have assigned content, elements or text nodes
SlotsWithAssigned == {sl \in LiveElements : IsSlot(sl) /\ assignedNodes(sl) # <<>>}

\* the default content of a slot: the nodes below it in its own tree
DefaultContent(sl) == {n \in Nodes : sl \in TreeAncestors(n) \ {n}}

\* the element has no name source other than its text content
OnlyContentNames(e) ==
    /\ labelledByElements(e) = <<>>
    /\ ExplicitLabel(e) = <<>>
    /\ associatedLabelText(e) = NullStr
    /\ TypeAttribute(e) = <<>>
    /\ dom[e].title = <<>>

\* the joined text of a list of nodes
TextOfNodes(ns) == normalize([i \in DOMAIN ns |-> asText(ns[i])])

\* C14: a slot that has assigned content, elements or text nodes, never contributes its
\* default children: a traversal that starts outside them does not visit them, and the
\* name the slot gets from its content is the text of the assigned nodes only.
C14_AssignedHidesDefault ==
    /\ IsQueryCall =>
           \A sl \in SlotsWithAssigned :
               call.node \notin DefaultContent(sl) =>
                   \A i \in DOMAIN call.pulled : call.pulled[i] \notin DefaultContent(sl)
    /\ (/\ call.op = "computeAccessibleName"
        /\ call.node \in SlotsWithAssigned
        /\ ~isElementHidden(call.node)
        /\ OnlyContentNames(call.node)) =>
           call.name = TextOfNodes(assignedNodesFlat(call.node))

----------------------------------------------------------------------------
(* C15 *)

\* the elements for which the tracker has recorded a shadow root
TrackedHosts == {h \in LiveElements : shadowdomMapGet(h) # NoNode}

\* some slot visited before position i has the element among its assigned elements
ReachedThroughSlot(i) ==
    \E j \in 1..(i - 1) :
        /\ IsSlot(call.pulled[j])
        /\ \E k \in DOMAIN assignedElementsFlat(call.pulled[j]) :
               assignedElementsFlat(call.pulled[j])[k] = call.pulled[i]

\* C15: for every element with a shadow root recorded in the tracker, the traversal
\* reaches the element's ordinary children only through a slot inside that root, and
\* the name the element gets from its content is the text of the root's content.
C15_TrackedRootOnly ==
    /\ IsQueryCall =>
           \A i \in DOMAIN call.pulled :
               (/\ call.pulled[i] # call.node
                /\ dom[call.pulled[i]].parentNode \in TrackedHosts) => ReachedThroughSlot(i)
    /\ (/\ call.op = "computeAccessibleName"
        /\ call.node \in TrackedHosts
        /\ ~IsSlot(call.node)
        /\ ~isElementHidden(call.node)
        /\ OnlyContentNames(call.node)) =>
           call.name = TextOfNodes(childNodes(shadowRootOf(call.node)))

\* C15 witness: the name of a tracked host was computed from its shadow root and is
\* not the text of its ordinary children.
C15_Witness ==
    /\ call.op = "computeAccessibleName"
    /\ call.node \in TrackedHosts
    /\ OnlyContentNames(call.node)
    /\ TextOfNodes(childNodes(call.node)) # <<>>
    /\ call.name # TextOfNodes(childNodes(call.node))

----------------------------------------------------------------------------
(* State machine of the page's scripts alone, calls that throw included *)

\* how a call of a page script ended: returned (and what) or threw
AttachRecord(op, e, r) ==
    [NoCall EXCEPT !.op = op, !.node = e, !.ok = ~r.threw, !.returned = r.returned]

AttachInternalsOutcome(e) == Attach(internalsMap, e, attachInternalsThrows(e), e)
AttachShadowOutcome(e) == Attach(shadowdomMap, e, attachShadowThrows(e), NewShadowRoot(e))

\* el.attachInternals(), returning or throwing
CallAttachInternals(e) ==
    AttachInternalsCall(e, AttachInternalsOutcome(e),
                        AttachRecord("attachInternals", e, AttachInternalsOutcome(e)))

\* el.attachShadow(options), returning or throwing
CallAttachShadow(e) ==
    AttachShadowCall(e, AttachShadowOutcome(e),
                     AttachRecord("attachShadow", e, AttachShadowOutcome(e)))

TrackerInit ==
    /\ \E s \in ShadowScenes \cup LifecycleScenes \cup TextSlotScenes \cup TagScenes :
           PageAt(s)
    /\ TestProcessInit

TrackerNext ==
    \/ ScriptForInit
    \/ \E e \in Elements : CallAttachInternals(e)
    \/ \E e \in Elements : CallAttachShadow(e)

TrackerSpec == TrackerInit /\ [][TrackerNext]_vars

----------------------------------------------------------------------------
(* C16 *)

\* the calls of the chain that returned a locator
LocatorCalls == {i \in DOMAIN chain : IsLocator(prototypes, chain[i].returned)}

\* C16: once registerLocator has returned, every locator returned along a chain of
\* method calls that starts at the page has the patched locator prototype, and every
\* additional method registered is a method of it.
C16_ChainedLocatorsArePatched ==
    registered > 0 =>
        \A i \in LocatorCalls :
            /\ chain[i].returned = patchedLocatorPrototype
            /\ additionalMethods \subseteq entries(prototypes, chain[i].returned)

\* a chain of three calls, the second made through an additional method, after a
\* registration that added methods
C16_Witness ==
    /\ registered > 0
    /\ additionalMethods # {}
    /\ Len(chain) = MaxChain
    /\ LocatorCalls = DOMAIN chain
    /\ chain[2].name \in additionalMethods
    /\ chain[3].name = "getByRole"

----------------------------------------------------------------------------
(* C17 *)

\* the methods one can invoke on the page or on a patched locator
ReachableMethods ==
    {Get(prototypes, object, name) :
        object \in {page, patchedLocatorPrototype}, name \in MethodNames} \ {NoMethod}

\* C17: after any number of registerLocator calls on the page, every method reachable
\* on the page or on a patched locator has exactly one re-tagging wrapper around the
\* original method.
C17_WrappedOnce ==
    registered > 0 => \A method \in ReachableMethods : Len(method.wrappers) = 1

----------------------------------------------------------------------------
(* C18 *)

\* the map after the step maps e to object and is otherwise the map before
Recorded(before, after, e, object) ==
    /\ DOMAIN after = DOMAIN before \cup {e}
    /\ after[e] = object
    /\ \A x \in DOMAIN before \ {e} : after[x] = before[x]

\* a call of attachInternals on e through the wrapper: it throws exactly when the
\* browser's operation does; returning, it returns that operation's ElementInternals
\* and the role-override map has e -> that object; throwing, it changes no map
InternalsCallIsTransparent(e) ==
    (call'.op = "attachInternals" /\ call'.node = e) =>
        /\ call'.ok = ~attachInternalsThrows(e)
        /\ call'.ok =>
               /\ call'.returned = e
               /\ internals'[e].has
               /\ Recorded(internalsMap, internalsMap', e, call'.returned)
               /\ shadowdomMap' = shadowdomMap
        /\ ~call'.ok => UNCHANGED <<internalsMap, shadowdomMap, internals, attached>>

\* the same for attachShadow and the detached-root map
ShadowCallIsTransparent(e) ==
    (call'.op = "attachShadow" /\ call'.node = e) =>
        /\ call'.ok = ~attachShadowThrows(e)
        /\ call'.ok =>
               /\ call'.returned = NewShadowRoot(e)
               /\ e \in attached'
               /\ Recorded(shadowdomMap, shadowdomMap', e, call'.returned)
               /\ internalsMap' = internalsMap
        /\ ~call'.ok => UNCHANGED <<internalsMap, shadowdomMap, internals, attached>>

\* C18: once the init hook has run, every call of attachInternals or attachShadow on
\* an element throws exactly when the original operation throws and otherwise returns
\* the original's object, and the tracker then maps the element to exactly that
\* object; a call that throws leaves both maps as they were.
C18_WrappersAreTransparent ==
    [][hooked => \A e \in Elements :
                     InternalsCallIsTransparent(e) /\ ShadowCallIsTransparent(e)]_vars

\* a second attachInternals on an element the tracker holds in both maps has thrown
C18_Witness ==
    /\ hooked
    /\ call.op = "attachInternals"
    /\ ~call.ok
    /\ call.node \in DOMAIN internalsMap
    /\ call.node \in DOMAIN shadowdomMap
    /\ internalsMap[call.node] = call.node
    /\ shadowdomMap[call.node] = shadowRootOf(call.node)

----------------------------------------------------------------------------
(* C19 *)

\* C19: every cache of the engine belongs to one top-level call: whenever a new call
\* can start, after any calls made before on the engine, the computed-style cache
\* is empty (the name cache and the visited sets are created inside each call).
C19_CachesStartEmpty ==
    (engine # "none" /\ callsLeft > 0) => computedStyleCache = {}

----------------------------------------------------------------------------
(* C20 *)

\* the call just made, made once more on the engine as it is now, returns the same
RepeatedCallReturnsTheSame ==
    /\ call.op = "query" =>
           query(call.node, call.selector) = First(call.results)
    /\ call.op = "queryAll" =>
           queryAll(call.node, call.selector) = call.results
    /\ call.op = "computeAccessibleName" =>
           computeAccessibleName(call.node, call.knownRole, call.allowNameFromContent)
               = call.name

\* what the calls made so far left on the engine gives a later call the style it
\* would read on a new engine
EarlierCallsLeaveNoTrace ==
    \A e \in computedStyleCache : ComputedStyle(e) = getComputedStyle(e)

----------------------------------------------------------------------------
(* C21 *)

\* a string that is empty, or has no whitespace at either end and no whitespace
\* but single spaces between other characters
IsNormalized(str) ==
    \A i \in DOMAIN str :
        IsWs(str[i]) =>
            /\ str[i] = " "
            /\ i # 1
            /\ i # Len(str)
            /\ ~IsWs(str[i + 1])

\* C21: every value computeAccessibleName returns is empty or normalized: no
\* whitespace at its ends, and every whitespace run in it is one space.
C21_NamesAreNormalized ==
    call.op = "computeAccessibleName" => IsNormalized(call.name)

\* a name taken from text content that has leading whitespace and a run of three
\* whitespace characters, one of them a tab
C21_Witness ==
    /\ call.op = "computeAccessibleName"
    /\ call.name = <<"c", " ", "c">>
    /\ \E t \in Nodes :
           /\ dom[t].parentNode = call.node
           /\ dom[t].nodeValue = <<" ", "c", "\t", " ", "c">>

----------------------------------------------------------------------------
(* C22 *)

\* a section element without a role attribute
IsPlainSection(e) == dom[e].tagName = "SECTION" /\ ~Truthy(dom[e].role)

\* no step of the chain other than text content gives e a name
OnlyContentCanName(e) == \A i \in 1..5 : StepValues(e)[i] = <<>>

\* C22: a section without a role attribute has role region exactly when its name
\* computed with name-from-content disabled is non-empty, generic otherwise; its own
\* text content is no source of that name, so a section that only its text content
\* could name is generic.
C22_SectionRoleNeedsAName ==
    (call.op = "computeElementRole" /\ IsPlainSection(call.node)) =>
        /\ call.role = IF computeAccessibleName(call.node, "region", FALSE) # <<>>
                       THEN "region" ELSE "generic"
        /\ OnlyContentCanName(call.node) => call.role = "generic"

----------------------------------------------------------------------------
(* C23 *)

\* the two explicit labels of an element, normalized: the one its recorded
\* ElementInternals holds, and its aria-label attribute
OverrideLabel(e) ==
    IF internalsMapGet(e).ariaLabel = NullStr THEN <<>>
    ELSE normalize(<<internalsMapGet(e).ariaLabel>>)
AttributeLabel(e) ==
    IF dom[e].ariaLabel = NullStr THEN <<>> ELSE normalize(<<dom[e].ariaLabel>>)

\* C23: for an element with no cross-reference name, the label held by its recorded
\* ElementInternals comes before its aria-label attribute: the name is the normalized
\* override label when that is non-empty, whatever the attribute is, and the
\* normalized attribute when only the attribute is non-empty.
C23_OverrideLabelFirst ==
    (call.op = "computeAccessibleName" /\ labelledByElements(call.node) = <<>>) =>
        /\ OverrideLabel(call.node) # <<>> => call.name = OverrideLabel(call.node)
        /\ (OverrideLabel(call.node) = <<>> /\ AttributeLabel(call.node) # <<>>) =>
               call.name = AttributeLabel(call.node)

----------------------------------------------------------------------------
(* C24 *)

\* the labels associated with e, in tree order: those that name its id and those
\* that wrap it
ReferencingLabels(e) ==
    {l \in Elements : dom[l].tagName = "LABEL" /\ dom[e].id # <<>>
                      /\ dom[l].htmlFor = dom[e].id}
WrappingLabels(e) ==
    {l \in Elements : dom[l].tagName = "LABEL" /\ dom[l].htmlFor = NullStr
                      /\ l \in TreeAncestors(e)}
AssociatedLabels(e) ==
    SelectSeq(TreeElements(TheDocument),
              LAMBDA l : l \in ReferencingLabels(e) \cup WrappingLabels(e))

\* the normalized, space-joined text of all labels associated with e
AllLabelsText(e) == normalize(AsTextAll(AssociatedLabels(e)).texts)

\* e has no cross-reference name and no explicit label
NoEarlierName(e) ==
    /\ labelledByElements(e) = <<>>
    /\ OverrideLabel(e) = <<>>
    /\ AttributeLabel(e) = <<>>

\* C24: for a form control with no cross-reference name and no explicit label whose
\* labels have text, the name is the normalized, space-joined text of all labels
\* associated with it, those that name its id together with those that wrap it.
C24_AllLabelsName ==
    (/\ call.op = "computeAccessibleName"
     /\ IsLabelable(call.node)
     /\ NoEarlierName(call.node)
     /\ AllLabelsText(call.node) # <<>>) =>
        call.name = AllLabelsText(call.node)

----------------------------------------------------------------------------
(* C25 *)

\* the whole traversal of the call's root, as queryAll with the same filter walks it
WholeTraversal == QueryAll(call.node, call.selector).pulled

\* the part of a sequence without repetitions that ends at x
UpTo(seq, x) == SubSeq(seq, 1, CHOOSE i \in DOMAIN seq : seq[i] = x)

\* the elements that come after the first match in traversal order
AfterFirstMatch ==
    {WholeTraversal[i] : i \in Len(UpTo(WholeTraversal, call.results[1])) + 1
                                 .. Len(WholeTraversal)}

\* the elements whose computed style the call read while testing visibility
VisibilityChecked == Query(call.node, call.selector).styled

\* C25 as stated: in a run of query no element that comes after the first match in
\* traversal order is visited or has its visibility checked.
C25_NothingAfterFirstMatch ==
    (call.op = "query" /\ call.results # <<>>) =>
        \A e \in AfterFirstMatch :
            /\ \A i \in DOMAIN call.pulled : call.pulled[i] # e
            /\ e \notin VisibilityChecked

\* C25: query is lazy: the traversal yields the elements of the traversal order up
\* to and including the first match and no element after it; without a match it
\* yields the whole traversal.
C25_QueryStopsAtFirstMatch ==
    call.op = "query" =>
        /\ call.results = <<>> => call.pulled = WholeTraversal
        /\ call.results # <<>> =>
               call.pulled = UpTo(WholeTraversal, QueryAll(call.node, call.selector).results[1])

\* a query that stopped before the end of the traversal, after testing the
\* visibility of an element that comes after its match
C25_Witness ==
    /\ call.op = "query"
    /\ call.results # <<>>
    /\ Len(call.pulled) < Len(WholeTraversal)
    /\ AfterFirstMatch \cap VisibilityChecked # {}

----------------------------------------------------------------------------
(* C26 *)

\* no value occurs at two positions of the sequence
NoRepeats(seq) == \A i, j \in DOMAIN seq : seq[i] = seq[j] => i = j

\* the elements of a sequence
Range(seq) == {seq[i] : i \in DOMAIN seq}

\* the assigned elements of the slots the call's traversal yielded
YieldedAsAssigned ==
    {x \in Range(call.pulled) :
        \E s \in Range(call.pulled) : IsSlot(s) /\ x \in Range(assignedElementsFlat(s))}

\* C26: within one call of query or queryAll the traversal yields every element at
\* most once, and the result of queryAll holds no element twice and only elements
\* the traversal yielded.
C26_NoElementTwice ==
    call.op \in {"query", "queryAll"} =>
        /\ NoRepeats(call.pulled)
        /\ NoRepeats(call.results)
        /\ Range(call.results) \subseteq Range(call.pulled)

\* a queryAll that returned several elements, one of them a child of a host that
\* the traversal reached as the assigned content of a slot
C26_Witness ==
    /\ call.op = "queryAll"
    /\ Len(call.results) >= 2
    /\ YieldedAsAssigned \cap Range(call.results) # {}

----------------------------------------------------------------------------
(* C27 *)

\* e has no role attribute and no role by its tag, and the tracker recorded its
\* ElementInternals: the override is the only source of its role
OverrideOnly(e) ==
    /\ ~Truthy(dom[e].role)
    /\ dom[e].tagName \notin DOMAIN TagTable \cup {"INPUT", "SECTION", "SELECT", "A"}
    /\ engine = "tracker"
    /\ e \in DOMAIN internalsMap

\* the role the recorded ElementInternals of e holds now (Null when it holds none)
HeldRole(e) ==
    IF Truthy(internals[internalsMap[e]].role) THEN internals[internalsMap[e]].role
    ELSE Null

\* C27: the role computed for an element whose only source of a role is its recorded
\* override is the role the override holds at the time of the call, whatever it held
\* when it was recorded; queryAll by role keeps such an element exactly when the role
\* it holds at that time is the one asked for.
C27_RoleHeldAtQueryTime ==
    /\ (call.op = "computeElementRole" /\ OverrideOnly(call.node)) =>
           call.role = HeldRole(call.node)
    /\ (call.op = "queryAll" /\ DOMAIN call.selector = {"role"}
                             /\ Truthy(call.selector["role"])) =>
           \A e \in Range(call.pulled) :
               OverrideOnly(e) =>
                   (e \in Range(call.results) <=> HeldRole(e) = call.selector["role"])

\* the host of the shadow page, whose override held "button" when the engine was
\* made, is passed over by a queryAll for "button": the page has assigned "switch"
\* since, and that is the role the call saw
C27_Witness ==
    /\ call.op = "queryAll"
    /\ call.selector = Sel("button")
    /\ \E e \in Range(call.pulled) \ Range(call.results) :
           /\ OverrideOnly(e)
           /\ dom[e].tagName = "X-HOST"
           /\ dom[e].title = <<"a">>
           /\ HeldRole(e) = "switch"

----------------------------------------------------------------------------
(* C28 *)

\* what the function under the wrappers of call i of the chain returned
RawReturn(i) ==
    ReturnValue(prototypes, chain[i].this,
                Get(prototypes, chain[i].this, chain[i].name).base)

\* the calls of the chain whose function returned no locator
OtherCalls ==
    {i \in DOMAIN chain : ~IsLocator(prototypes, RawReturn(i))}

\* C28: registerLocator leaves the library's objects as they were: Locator.prototype
\* and Page.prototype keep exactly their methods, so a page that was not registered
\* has its unpatched methods and gets unpatched locators from them; and a patched
\* method returns a result that is no locator, or is falsy, as its function returned it.
C28_OnlyThePageAndItsLocators ==
    /\ \A object \in DOMAIN LibraryPrototypes :
           prototypes[object] = LibraryPrototypes[object]
    /\ \A name \in MethodNames :
           Get(prototypes, PagePrototype, name) = Get(LibraryPrototypes, PagePrototype, name)
    /\ \A name \in entries(prototypes, PagePrototype) :
           Invoke(prototypes, PagePrototype, name)
               = Invoke(LibraryPrototypes, PagePrototype, name)
    /\ \A i \in OtherCalls : chain[i].returned = RawReturn(i)

\* after two registrations a chain on the page went through a patched method to a
\* locator and ended in an additional method that returned nothing
C28_Witness ==
    /\ registered = 2
    /\ page # PagePrototype
    /\ Len(chain) >= 2
    /\ chain[1].returned = patchedLocatorPrototype
    /\ chain[Len(chain)].name = "noResult"
    /\ chain[Len(chain)].returned = Undefined

====
